---- MODULE Spec2Model ----
(***************************************************************************)
(* A model of the movies API (Go, echo + PostgreSQL): the catalog handlers *)
(* with their optimistic-locking store calls, and the account handlers     *)
(* (registration, activation, login) with the users and tokens tables.     *)
(*                                                                         *)
(* Every store call (one SQL statement) is one atomic step; a handler that *)
(* makes several store calls is one action per call, each action taking    *)
(* the handler from one call to the next together with the local code      *)
(* around it (bind, merge, validate, map the error to a response).         *)
(***************************************************************************)
EXTENDS Integers, Sequences, FiniteSets, TLC

(***************************************************************************)
(* Bounds of the model.                                                    *)
(***************************************************************************)
\* number of requests in flight at the same time
MaxRequests == 2
\* number of movies ever inserted (the serial id stops there)
MaxMovies == 1
\* highest version a row is allowed to reach
MaxVersion == 3
\* number of tokens ever issued
MaxTokens == 2
\* how far the clock runs, in days
MaxTime == 2

\* the slots of the requests in flight; a slot says nothing about who sent the
\* request, and a new request takes the lowest free slot
Requests == 1..MaxRequests

(***************************************************************************)
(* Values.                                                                 *)
(***************************************************************************)
\* a Go pointer or slice that is nil, and one that is set
None == <<>>
Some(v) == <<v>>
IsSet(p) == p # None
Deref(p) == p[1]

ErrNone == "nil"
ErrNoRecordFound == "record not found"
ErrEditConflict == "edit conflict"
ErrDuplicateEmail == "duplicate email"

\* time.Now().Year() as ValidateMovie reads it
CurrentYear == 2026

\* the version column's DEFAULT, which INSERT ... RETURNING version reports
InitialVersion == 1

\* the token scopes
ScopeActivation == "activation"
ScopeAuth == "authentication"

\* the lifetimes registerUserHandler and authenticationTokenHandler give their
\* tokens, in days
ActivationTTL == 2
AuthTTL == 1

\* the zero value of data.User; Hash is Password.hash
ZeroUser == [ID |-> 0, Name |-> "", Email |-> "", Hash |-> None, Activated |-> FALSE, Version |-> 0]

\* the zero value of data.Movie
ZeroMovie == [ID |-> 0, Title |-> "", Year |-> 0, Runtime |-> 0, Genres |-> <<>>, Version |-> 0]


(***************************************************************************)
(* State.                                                                  *)
(***************************************************************************)
VARIABLES
  movies,        \* the movies table: id -> row (a data.Movie)
  nextMovieID,   \* the movies table's serial id
  req,           \* per slot: the request in flight (handler position and locals)
  resp,          \* the response the last step sent, on its way out (NoResp: none)
  shown,         \* per movie id: the oldest version a response has shown to a caller (0: none)
  movieUpdates,  \* history: per movie id and version v, the successful Updates that carried v
  traffic,       \* the routes this run exercises: "catalog" or "accounts"
  users,         \* the users table: id -> row (a data.User)
  nextUserID,    \* the users table's serial id
  tokens,        \* the tokens table: rows [Hash, UserID, Expiry, Scope]
  nextToken,     \* the plaintexts issued so far are 1..nextToken-1
  permissions,   \* the users_permissions table: pairs <<user id, code>>
  now,           \* the clock, in days
  userUpdates,   \* history: per user id and version v, the successful Updates that carried v
  activations,   \* history: per plaintext, the activation requests answered 200
  issued,        \* history: per plaintext, the identity, scope and expiry it was issued with
  revoked,       \* history: the plaintexts of the activation tokens that were issued for
                 \* an identity before an activation of it was answered 200
  wg,            \* app.wg: the background tasks submitted and not finished
  process        \* the process: "running", "shutting" (e.Shutdown is waiting), "exited"
                 \* (Shutdown returned nil), "timedout" (its deadline passed), "crashed"

catalogVars == <<movies, nextMovieID, shown, movieUpdates>>
accountVars == <<users, nextUserID, tokens, nextToken, permissions, now, userUpdates,
                 activations, issued, revoked>>
supervisorVars == <<wg, process>>
vars == <<req, resp, traffic, catalogVars, accountVars, supervisorVars>>

MovieIDs == 1..MaxMovies
Versions == 1..MaxVersion
\* the token plaintexts a request may present, told apart by the order of
\* issue: 1..MaxTokens get issued, the last one never is
Plaintexts == 1..(MaxTokens + 1)

(***************************************************************************)
(* internal/validator and internal/data/movies.go.                         *)
(***************************************************************************)
Range(s) == {s[i] : i \in DOMAIN s}

\* validator.Unique
Unique(values) == Len(values) = Cardinality(Range(values))

\* data.ValidateMovie: the keys that get an error
ValidateMovie(movie) ==
  {k \in {"title", "year", "runtime", "genres"} :
     \/ k = "title" /\ (movie.Title = "" \/ Len(movie.Title) > 500)
     \/ k = "year" /\ (movie.Year = 0 \/ ~(movie.Year >= 1888 /\ movie.Year <= CurrentYear))
     \/ k = "runtime" /\ ~(movie.Runtime > 0)
     \/ k = "genres" /\ (~(Len(movie.Genres) >= 1 /\ Len(movie.Genres) <= 5) \/ ~Unique(movie.Genres))}

\* MovieModel.Insert: INSERT ... RETURNING id, created_at, version
MovieInsert(ms, serial, movie) ==
  LET row == [movie EXCEPT !.ID = serial, !.Version = InitialVersion]
  IN  [movies |-> (serial :> row) @@ ms, movie |-> row, err |-> ErrNone]

\* MovieModel.Get: SELECT ... WHERE id = $1
MovieGet(ms, id) ==
  IF id < 1 \/ id \notin DOMAIN ms
  THEN [movie |-> ZeroMovie, err |-> ErrNoRecordFound]
  ELSE [movie |-> ms[id], err |-> ErrNone]

\* MovieModel.Update: UPDATE ... SET ..., version = version + 1
\*   WHERE id = $5 AND version = $6 RETURNING version
\* Movies.Update with "WHERE id = $5" alone: the write no longer depends on the
\* version the caller supplies
MovieUpdate_AnyVersion(ms, movie) ==
  IF movie.ID \in DOMAIN ms
  THEN LET row == [movie EXCEPT !.Version = ms[movie.ID].Version + 1]
       IN  [movies |-> [ms EXCEPT ![movie.ID] = row], movie |-> row, err |-> ErrNone]
  ELSE [movies |-> ms, movie |-> movie, err |-> ErrEditConflict]

\* Movies.Update without the Scan of "RETURNING version" into the caller's record
MovieUpdate_NoScan(ms, movie) ==
  IF movie.ID \in DOMAIN ms /\ ms[movie.ID].Version = movie.Version
  THEN LET row == [movie EXCEPT !.Version = ms[movie.ID].Version + 1]
       IN  [movies |-> [ms EXCEPT ![movie.ID] = row], movie |-> movie, err |-> ErrNone]
  ELSE [movies |-> ms, movie |-> movie, err |-> ErrEditConflict]

\* Movies.Update as an upsert: when no row has the id, the record is written
\* back as a new row
MovieUpdate_Upsert(ms, movie) ==
  IF movie.ID \in DOMAIN ms /\ ms[movie.ID].Version = movie.Version
  THEN LET row == [movie EXCEPT !.Version = ms[movie.ID].Version + 1]
       IN  [movies |-> [ms EXCEPT ![movie.ID] = row], movie |-> row, err |-> ErrNone]
  ELSE IF movie.ID \notin DOMAIN ms
  THEN LET row == [movie EXCEPT !.Version = movie.Version + 1]
       IN  [movies |-> (movie.ID :> row) @@ ms, movie |-> row, err |-> ErrNone]
  ELSE [movies |-> ms, movie |-> movie, err |-> ErrEditConflict]

MovieUpdate(ms, movie) ==
  IF movie.ID \in DOMAIN ms /\ ms[movie.ID].Version = movie.Version
  THEN LET row == [movie EXCEPT !.Version = ms[movie.ID].Version + 1]
       IN  [movies |-> [ms EXCEPT ![movie.ID] = row], movie |-> row, err |-> ErrNone]
  ELSE [movies |-> ms, movie |-> movie, err |-> ErrEditConflict]

\* MovieModel.Delete: DELETE FROM movies WHERE id = $1
MovieDelete(ms, id) ==
  IF id < 1 \/ id \notin DOMAIN ms
  THEN [movies |-> ms, err |-> ErrNoRecordFound]
  ELSE [movies |-> [i \in DOMAIN ms \ {id} |-> ms[i]], err |-> ErrNone]

(***************************************************************************)
(* internal/data/users.go.                                                 *)
(***************************************************************************)
\* the addresses validator.EmailRX matches, among those a request may carry
WellFormedEmails == {"a@x.com", "b@x.com"}

\* the addresses a registration may carry: the other one is never registered
RegistrableEmails == {"a@x.com"}

UserIDs == 1..Cardinality(RegistrableEmails)

\* bcrypt.GenerateFromPassword(plaintext, 12): a digest that is not the plaintext
Bcrypt(plaintext) == Some(<<"bcrypt", 12, plaintext>>)

\* password.Matches: bcrypt.CompareHashAndPassword
PasswordMatches(hash, plaintext) == hash = Bcrypt(plaintext)

\* sha256.Sum256 of a token plaintext: one digest per plaintext, never the plaintext
Sha256(plaintext) == <<"sha256", plaintext>>

\* data.ValidateEmail
ValidateEmail(email) ==
  {k \in {"email"} : email = "" \/ email \notin WellFormedEmails}

\* data.ValidPlainText
ValidPlainText(plaintext) ==
  {k \in {"password"} : plaintext = ""}

\* data.ValidateUser, on the user registerUserHandler built from the body
ValidateUser(user, plaintext) ==
  {k \in {"name"} : user.Name = "" \/ Len(user.Name) > 500}
    \cup ValidateEmail(user.Email)
    \cup ValidPlainText(plaintext)
    \cup {k \in {"password"} : ~(Len(plaintext) >= 8 /\ Len(plaintext) <= 72)}

\* Users.Insert into a table with no unique constraint on the email
UserInsert_NoUniqueKey(us, serial, user) ==
  LET row == [user EXCEPT !.ID = serial, !.Version = InitialVersion]
  IN  [users |-> (serial :> row) @@ us, user |-> row, err |-> ErrNone]

\* UserModel.Insert: INSERT INTO users ... RETURNING id, created_at, version,
\* under the unique constraint users_email_key
UserInsert(us, serial, user) ==
  IF \E i \in DOMAIN us : us[i].Email = user.Email
  THEN [users |-> us, user |-> user, err |-> ErrDuplicateEmail]
  ELSE LET row == [user EXCEPT !.ID = serial, !.Version = InitialVersion]
       IN  [users |-> (serial :> row) @@ us, user |-> row, err |-> ErrNone]

\* UserModel.GetByEmail: SELECT ... FROM users WHERE email = $1
UserGetByEmail(us, email) ==
  IF \E i \in DOMAIN us : us[i].Email = email
  THEN [user |-> us[CHOOSE i \in DOMAIN us : us[i].Email = email], err |-> ErrNone]
  ELSE [user |-> ZeroUser, err |-> ErrNoRecordFound]

\* UserModel.Update: UPDATE users SET ..., version = version + 1
\*   WHERE id = $5 AND version = $6 RETURNING version
\* Users.Update whose SET clause leaves the version column alone
UserUpdate_SameVersion(us, user) ==
  IF ~(user.ID \in DOMAIN us /\ us[user.ID].Version = user.Version)
  THEN [users |-> us, user |-> user, err |-> ErrEditConflict]
  ELSE [users |-> [us EXCEPT ![user.ID] = user], user |-> user, err |-> ErrNone]

\* Users.Update with "WHERE id = $5" alone
UserUpdate_AnyVersion(us, user) ==
  IF user.ID \notin DOMAIN us
  THEN [users |-> us, user |-> user, err |-> ErrEditConflict]
  ELSE LET row == [user EXCEPT !.Version = us[user.ID].Version + 1]
       IN  [users |-> [us EXCEPT ![user.ID] = row], user |-> row, err |-> ErrNone]

UserUpdate(us, user) ==
  IF ~(user.ID \in DOMAIN us /\ us[user.ID].Version = user.Version)
  THEN [users |-> us, user |-> user, err |-> ErrEditConflict]
  ELSE IF \E i \in DOMAIN us \ {user.ID} : us[i].Email = user.Email
  THEN [users |-> us, user |-> user, err |-> ErrDuplicateEmail]
  ELSE LET row == [user EXCEPT !.Version = us[user.ID].Version + 1]
       IN  [users |-> [us EXCEPT ![user.ID] = row], user |-> row, err |-> ErrNone]

\* the rows of UserModel.GetByToken's query: tokens joined with their users,
\*   WHERE tokens.hash = $1 AND tokens.scope = $2 AND tokens.expiry > $3
\* the query without "AND tokens.scope = $2"
GetByTokenRows_AnyScope(us, toks, scope, plaintext, time) ==
  {t \in toks : /\ t.UserID \in DOMAIN us
                /\ t.Hash = Sha256(plaintext)
                /\ t.Expiry > time}

GetByTokenRows(us, toks, scope, plaintext, time) ==
  {t \in toks : /\ t.UserID \in DOMAIN us
                /\ t.Hash = Sha256(plaintext)
                /\ t.Scope = scope
                /\ t.Expiry > time}

\* Users.GetByToken telling a token that has expired from one that is not stored
UserGetByToken_TellsExpired(us, toks, scope, plaintext, time) ==
  LET rows == GetByTokenRows(us, toks, scope, plaintext, time)
  IN  IF rows = {}
      THEN [user |-> ZeroUser,
            err |-> IF GetByTokenRows(us, toks, scope, plaintext, 0 - 1) # {}
                    THEN "token expired" ELSE ErrNoRecordFound]
      ELSE [user |-> us[(CHOOSE t \in rows : TRUE).UserID], err |-> ErrNone]

\* UserModel.GetByToken
UserGetByToken(us, toks, scope, plaintext, time) ==
  LET rows == GetByTokenRows(us, toks, scope, plaintext, time)
  IN  IF rows = {}
      THEN [user |-> ZeroUser, err |-> ErrNoRecordFound]
      ELSE [user |-> us[(CHOOSE t \in rows : TRUE).UserID], err |-> ErrNone]

(***************************************************************************)
(* internal/data: the tokens and the permissions (after the specification: *)
(* Token Ledger, Permission Registry).                                     *)
(***************************************************************************)
\* data.ValidateTokenPlainText: the plaintext has the shape of a token; 0 stands
\* for text that has not
ValidateTokenPlainText(plaintext) ==
  {k \in {"token"} : plaintext = 0}

\* TokenModel.New: issue(identity-id, ttl, scope) with a fresh plaintext
TokenNew(toks, plaintext, userID, ttl, scope, time) ==
  toks \cup {[Hash |-> Sha256(plaintext), UserID |-> userID, Expiry |-> time + ttl, Scope |-> scope]}

\* TokenModel.DeleteAllForUser: revokeAllForIdentity(scope, identity-id)
TokenDeleteAllForUser(toks, scope, userID) ==
  {t \in toks : ~(t.Scope = scope /\ t.UserID = userID)}

\* PermissionModel.AddForUser: grantDefaults(identity-id)
PermissionsAddForUser(perms, userID) ==
  perms \cup {<<userID, "movies:read">>}

\* PermissionModel.GetAllForUser: allGrants(identity-id)
PermissionsGetAllForUser(perms, userID) ==
  {g[2] : g \in {h \in perms : h[1] = userID}}

\* Permissions.Include: includes(grants, code)
Include(codes, code) == code \in codes

(***************************************************************************)
(* main.go: the errors a handler returns and customHTTPErrorHandler.       *)
(***************************************************************************)
\* echo.NewHTTPError(code, message)
NewHTTPError(code, message) == [http |-> TRUE, code |-> code, message |-> message]

\* an error that is no *echo.HTTPError, named by its text; ErrNone is nil
PlainError(err) == [http |-> FALSE, code |-> 0, message |-> err]

\* customHTTPErrorHandler: the status and the "error" member of the JSON it writes
customHTTPErrorHandler(err) ==
  IF err.http THEN [status |-> err.code, message |-> err.message]
  ELSE [status |-> 500,
        message |-> "the server encountered a problem and could not process your request"]

(***************************************************************************)
(* cmd/api/middleware.go: Authenticate and the two gates.                  *)
(***************************************************************************)
\* what c.Get("user") holds: data.AnonymousUser, told by its address and not by
\* its fields, or the user Users.GetByToken returned
AnonymousUser == [sentinel |-> TRUE, user |-> ZeroUser]
Fetched(user) == [sentinel |-> FALSE, user |-> user]
NoIdentity == [sentinel |-> FALSE, user |-> ZeroUser]

\* IsAnonymous comparing the fields with those of the sentinel, not the address
IsAnonymous_ByFields(identity) == identity.user = ZeroUser

\* User.IsAnonymous
IsAnonymous(identity) == identity.sentinel

\* Authenticate looking the token up with the scope of activation tokens
AuthenticateHeader_ActivationScope(header, us, toks, time) ==
  LET refused == [status |-> 401, challenge |-> TRUE, identity |-> NoIdentity,
                  message |-> "invalid authentication token"] IN
  IF header = <<>>
  THEN [status |-> 0, challenge |-> FALSE, identity |-> AnonymousUser, message |-> ""]
  ELSE IF Len(header) # 2 \/ header[1] # "Bearer" THEN refused
  ELSE IF ValidateTokenPlainText(header[2]) # {} THEN refused
  ELSE LET r == UserGetByToken(us, toks, ScopeActivation, header[2], time)
       IN  IF r.err = ErrNoRecordFound THEN refused
           ELSE [status |-> 0, challenge |-> FALSE, identity |-> Fetched(r.user), message |-> ""]

\* Authenticate, on the parts of the Authorization header (<<>>: no header):
\* the status it ends the request with (0: it calls next), whether it sets
\* WWW-Authenticate: Bearer, the message of its echo.NewHTTPError, and the
\* identity it attaches
AuthenticateHeader(header, us, toks, time) ==
  LET refused == [status |-> 401, challenge |-> TRUE, identity |-> NoIdentity,
                  message |-> "invalid authentication token"] IN
  IF header = <<>>
  THEN [status |-> 0, challenge |-> FALSE, identity |-> AnonymousUser, message |-> ""]
  ELSE IF Len(header) # 2 \/ header[1] # "Bearer" THEN refused
  ELSE IF ValidateTokenPlainText(header[2]) # {} THEN refused
  ELSE LET r == UserGetByToken(us, toks, ScopeAuth, header[2], time)
       IN  IF r.err = ErrNoRecordFound THEN refused
           ELSE [status |-> 0, challenge |-> FALSE, identity |-> Fetched(r.user), message |-> ""]

\* RequireActivatedUser without its test of user.Activated
RequireActivatedUser_AnonymousOnly(identity) ==
  IF IsAnonymous(identity) THEN 401 ELSE 0

\* RequireActivatedUser answering both refusals alike
RequireActivatedUser_OneStatus(identity) ==
  IF IsAnonymous(identity) \/ ~identity.user.Activated THEN 403 ELSE 0

\* RequireActivatedUser: the status it ends the request with (0: it calls next)
RequireActivatedUser(identity) ==
  IF IsAnonymous(identity) THEN 401
  ELSE IF ~identity.user.Activated THEN 403
  ELSE 0

\* RequireActivatedUser: the message of the echo.NewHTTPError it returns
RequireActivatedUser_Message(identity) ==
  IF IsAnonymous(identity) THEN "you must be autenticated to access this resource"
  ELSE IF ~identity.user.Activated
  THEN "your user account must be activated to access this resource"
  ELSE ""

\* RequirePermission's fn calling next whatever the lookup returned
RequirePermission_Status_AnyCodes(codes, permission) == 0

\* RequirePermission's fn, after Permissions.GetAllForUser: the status it ends
\* the request with (0: it calls next)
RequirePermission_Status(codes, permission) ==
  IF ~Include(codes, permission) THEN 403 ELSE 0

\* RequirePermission's fn: the message of the echo.NewHTTPError it returns
RequirePermission_Message(codes, permission) ==
  IF ~Include(codes, permission)
  THEN "you user account doesn't have the necessary permissions to access this resource"
  ELSE ""

\* routes: the permission each catalog route is registered with
RoutePermission ==
  [getMovies |-> "movies:read", createMovie |-> "movies:write", showMovie |-> "movies:read",
   updateMovie |-> "movies:write", deleteMovie |-> "movies:write"]

GatedRoutes == DOMAIN RoutePermission

(***************************************************************************)
(* Requests: what a client may send.                                       *)
(***************************************************************************)
\* the Authorization header, split at its blanks: none, no token, another
\* scheme, and Bearer with any plaintext or with text that is no token (0)
AuthHeaders ==
  {<<>>, <<"Bearer">>, <<"Basic", 1>>} \cup {<<"Bearer", p>> : p \in Plaintexts \cup {0}}

\* the query of GET /v1/movies: page, page_size and sort
ListQueries ==
  { [Page |-> 1, PageSize |-> 5, Sort |-> "id"], [Page |-> 0, PageSize |-> 5, Sort |-> "id"] }

\* the :id path parameter: a decimal number, or text that is none
IDParams == {[numeric |-> TRUE, n |-> i] : i \in 0..MaxMovies} \cup {[numeric |-> FALSE, n |-> 0]}

\* strconv.Atoi
Atoi(p) == IF p.numeric THEN [n |-> p.n, err |-> FALSE] ELSE [n |-> 0, err |-> TRUE]

\* application.readIDParam
readIDParam(p) ==
  LET a == Atoi(p)
  IN  IF a.err /\ a.n < 1 THEN [id |-> 0, err |-> TRUE] ELSE [id |-> a.n, err |-> FALSE]

\* JSON bodies of POST /v1/movies; bad: a body c.Bind rejects
CreateBodies ==
  { [bad |-> FALSE, Title |-> "A", Year |-> 2000, Runtime |-> 90, Genres |-> <<"drama">>],
    [bad |-> FALSE, Title |-> "", Year |-> 1887, Runtime |-> 0, Genres |-> <<"drama", "drama">>],
    [bad |-> TRUE, Title |-> "", Year |-> 0, Runtime |-> 0, Genres |-> <<>>] }

\* JSON bodies of PATCH /v1/movies/:id: every field optional
PatchBodies ==
  { [bad |-> FALSE, Title |-> Some("B"), Year |-> None, Runtime |-> None, Genres |-> None],
    [bad |-> FALSE, Title |-> Some(""), Year |-> None, Runtime |-> None, Genres |-> None],
    [bad |-> TRUE, Title |-> None, Year |-> None, Runtime |-> None, Genres |-> None] }

\* JSON bodies of POST /v1/users
RegisterBodies ==
  { [bad |-> FALSE, Name |-> "Ann", Email |-> "a@x.com", Password |-> "longenough1"],
    [bad |-> FALSE, Name |-> "", Email |-> "not-an-address", Password |-> "short"],
    [bad |-> TRUE, Name |-> "", Email |-> "", Password |-> ""] }

\* JSON bodies of PUT /v1/users/activated: any plaintext, issued or not, and 0
\* for text that has not the shape of a token
ActivateBodies ==
  {[bad |-> FALSE, Token |-> p] : p \in Plaintexts \cup {0}} \cup {[bad |-> TRUE, Token |-> 0]}

\* JSON bodies of POST /v1/users/authentication
LoginBodies ==
  {[bad |-> FALSE, Email |-> e, Password |-> pw] :
      e \in WellFormedEmails, pw \in {"longenough1", "wrongpass99"}}
    \cup { [bad |-> FALSE, Email |-> "", Password |-> ""],
           [bad |-> TRUE, Email |-> "", Password |-> ""] }

\* updateMovieHandler's merge of the body into the movie it read
MergePatch(movie, body) ==
  [movie EXCEPT
     !.Title = IF IsSet(body.Title) THEN Deref(body.Title) ELSE @,
     !.Year = IF IsSet(body.Year) THEN Deref(body.Year) ELSE @,
     !.Runtime = IF IsSet(body.Runtime) THEN Deref(body.Runtime) ELSE @,
     !.Genres = IF IsSet(body.Genres) THEN Deref(body.Genres) ELSE @]

(***************************************************************************)
(* Per-client records.                                                     *)
(***************************************************************************)
\* no request in flight
\* route, identity, codes: of a request to a catalog route, the route, what
\* Authenticate attached and what Permissions.GetAllForUser returned
IdleReq == [pc |-> "idle", movie |-> ZeroMovie, user |-> ZeroUser, token |-> 0,
            stale |-> FALSE, sent |-> 0, attempts |-> 0,
            route |-> "none", identity |-> NoIdentity, codes |-> {}]

\* route: the handler that answered; status: the HTTP status; id, version: the
\* row the response is about; err: what the handler's last store call returned;
\* token: the plaintext the request presented;
\* sent: the version the request's Update carried; attempts: the Updates the
\* request issued; stale: the caller's last-read version was older than the
\* stored one when the request was issued
\* by: who ended the request (Authenticate, a gate, or the handler); challenge:
\* the response has WWW-Authenticate: Bearer; identity: what Authenticate
\* attached; looked, codes: the request called Permissions.GetAllForUser, and
\* what that returned; message: the "error" member of the body when the code
\* gives it as a constant text ("" otherwise: a success, the text of a Bind
\* error, or the map of a failed validation, of which the model keeps the keys);
\* call: the store call that failed, or during which the handler panicked, when
\* that ended the request; close: the response has Connection: close
NoResp == [route |-> "none", status |-> 0, id |-> 0, version |-> 0, err |-> ErrNone,
           token |-> 0, sent |-> 0, attempts |-> 0, stale |-> FALSE,
           by |-> "none", challenge |-> FALSE, identity |-> NoIdentity,
           looked |-> FALSE, codes |-> {}, message |-> "", call |-> "none",
           close |-> FALSE]

\* a plaintext that was not issued
NotIssued == [UserID |-> 0, Scope |-> "none", Expiry |-> 0]

\* some caller's last-read version of row id is older than the stored version
SomeReadIsOld(id) == id \in DOMAIN movies /\ shown[id] # 0 /\ shown[id] < movies[id].Version

\* who may send a request about row id: a caller whose last read is current
\* (FALSE) and, when there is one, a caller whose last read is old (TRUE)
Callers(id) == {FALSE} \cup {stale \in {TRUE} : SomeReadIsOld(id)}

\* the requests in flight, whichever slots hold them: slots have no identity, so
\* the slots are kept in one fixed arrangement of their contents
Canon(q) ==
  CHOOSE g \in {[c \in Requests |-> q[pi[c]]] : pi \in Permutations(Requests)} : TRUE

\* slot c is the one a new request takes
Free(c) ==
  /\ process = "running"
  /\ req[c].pc = "idle"
  /\ \A d \in Requests : d < c => req[d].pc # "idle"

\* the process has not ended
Alive == process \in {"running", "shutting"}

\* CustomRecover's deferred function returning at once
CustomRecover_NoWait(n) == FALSE

\* CustomRecover's deferred function, after next returned with no panic:
\* app.wg.Wait() blocks while n > 0 tasks are in flight
CustomRecover_Waits(n) == n > 0

\* the slot of a request whose handler has returned while n tasks are in flight
Returned(n) ==
  IF CustomRecover_Waits(n) THEN [IdleReq EXCEPT !.pc = "CustomRecover_Wait"] ELSE IdleReq

\* request c ends with response r; the response of a request that came through
\* the gates is told with its identity and the permissions it loaded
RespondAfter(c, r, n) ==
  /\ resp' = IF req[c].route = "none" THEN r
             ELSE [r EXCEPT !.identity = req[c].identity, !.codes = req[c].codes]
  /\ req' = Canon([req EXCEPT ![c] = Returned(n)])

Respond(c, r) == RespondAfter(c, r, wg)

\* a response shows version of row id to its caller
Learn(id, version) ==
  shown' = [shown EXCEPT ![id] = IF @ = 0 \/ version < @ THEN version ELSE @]

\* the database outlives the server: it may start on one in which an identity
\* registered and logged in (Registered), then activated (Activated), and was
\* granted movies:write by the operator (Writer); the histories go with it
EmptyAccounts ==
  [users |-> <<>>, nextUserID |-> 1, tokens |-> {}, nextToken |-> 1, permissions |-> {},
   userUpdates |-> [i \in UserIDs |-> [v \in Versions |-> 0]],
   activations |-> [p \in Plaintexts |-> 0],
   issued |-> [p \in Plaintexts |-> NotIssued],
   revoked |-> {}]

Registered ==
  LET ann == [ZeroUser EXCEPT !.Name = "Ann", !.Email = "a@x.com", !.Hash = Bcrypt("longenough1")]
      activation == TokenNew({}, 1, 1, ActivationTTL, ScopeActivation, 0)
  IN  [EmptyAccounts EXCEPT
         !.users = UserInsert(<<>>, 1, ann).users,
         !.nextUserID = 2,
         !.permissions = PermissionsAddForUser({}, 1),
         !.tokens = TokenNew(activation, 2, 1, AuthTTL, ScopeAuth, 0),
         !.nextToken = 3,
         !.issued = [@ EXCEPT ![1] = [UserID |-> 1, Scope |-> ScopeActivation, Expiry |-> ActivationTTL],
                              ![2] = [UserID |-> 1, Scope |-> ScopeAuth, Expiry |-> AuthTTL]]]

Activated ==
  [Registered EXCEPT
     !.users = UserUpdate(@, [@[1] EXCEPT !.Activated = TRUE]).users,
     !.tokens = TokenDeleteAllForUser(@, ScopeActivation, 1),
     !.userUpdates = [@ EXCEPT ![1][InitialVersion] = 1],
     !.activations = [@ EXCEPT ![1] = 1],
     !.revoked = {1}]

Writer == [Activated EXCEPT !.permissions = @ \cup {<<1, "movies:write">>}]

PersistedAccounts == {EmptyAccounts, Registered, Activated, Writer}

\* the state after main has opened the database db and started to serve
Boot(db) ==
  /\ movies = <<>>
  /\ nextMovieID = 1
  /\ req = [c \in Requests |-> IdleReq]
  /\ resp = NoResp
  /\ shown = [i \in MovieIDs |-> 0]
  /\ movieUpdates = [i \in MovieIDs |-> [v \in Versions |-> 0]]
  /\ users = db.users
  /\ nextUserID = db.nextUserID
  /\ tokens = db.tokens
  /\ nextToken = db.nextToken
  /\ permissions = db.permissions
  /\ userUpdates = db.userUpdates
  /\ activations = db.activations
  /\ issued = db.issued
  /\ revoked = db.revoked
  /\ now = 0
  /\ wg = 0
  /\ process = "running"

Init ==
  /\ traffic \in {"catalog", "accounts"}
  /\ \E db \in IF traffic = "catalog" THEN PersistedAccounts ELSE {EmptyAccounts} : Boot(db)

(***************************************************************************)
(* cmd/api/middleware.go: a request to a catalog route on its way to the   *)
(* handler.                                                                *)
(***************************************************************************)
\* the catalog routes the clients call: all of them on a catalog, one that reads
\* and one that writes while the grants change, and one that reads next to the
\* account routes
ClientRoutes ==
  IF traffic = "catalog" THEN GatedRoutes
  ELSE IF traffic = "grants" THEN {"showMovie", "createMovie"}
  ELSE {"showMovie"}

\* a request to a catalog route arrives: Authenticate, with its one store call
\* Users.GetByToken, and RequireActivatedUser, which RequirePermission wraps
\* around its fn
Authenticate(c) ==
  /\ resp = NoResp
  /\ Alive
  /\ UNCHANGED supervisorVars
  /\ Free(c)
  /\ \E route \in ClientRoutes, header \in AuthHeaders :
       LET a == AuthenticateHeader(header, users, tokens, now)
           gate == RequireActivatedUser(a.identity)
           answer(by, err) ==
             [NoResp EXCEPT !.status = customHTTPErrorHandler(err).status,
                            !.message = customHTTPErrorHandler(err).message,
                            !.by = by, !.challenge = a.challenge, !.identity = a.identity]
       IN  IF a.status # 0
           THEN Respond(c, answer("Authenticate", NewHTTPError(a.status, a.message)))
           ELSE IF gate # 0
           THEN Respond(c, answer("RequireActivatedUser",
                                  NewHTTPError(gate, RequireActivatedUser_Message(a.identity))))
           ELSE /\ req' = Canon([req EXCEPT ![c] = [IdleReq EXCEPT !.pc = "RequirePermission",
                                                !.route = route, !.identity = a.identity]])
                /\ resp' = NoResp
  /\ UNCHANGED <<traffic, catalogVars, accountVars>>

\* RequirePermission's fn deciding on the grants the database had when the
\* server started, kept from then on
RequirePermission_Lookup_Cached(perms, identity) ==
  PermissionsGetAllForUser(Activated.permissions, identity.user.ID)

\* RequirePermission's fn: its call of Permissions.GetAllForUser, on the
\* permissions table as it is when the request gets there
RequirePermission_Lookup(perms, identity) ==
  PermissionsGetAllForUser(perms, identity.user.ID)

\* RequirePermission's fn: Permissions.GetAllForUser, Include, and next
RequirePermission(c) ==
  /\ resp = NoResp
  /\ Alive
  /\ UNCHANGED supervisorVars
  /\ req[c].pc = "RequirePermission"
  /\ LET codes == RequirePermission_Lookup(permissions, req[c].identity)
         status == RequirePermission_Status(codes, RoutePermission[req[c].route])
     IN  IF status # 0
         THEN /\ resp' = [NoResp EXCEPT !.route = req[c].route, !.status = status,
                                        !.message = RequirePermission_Message(
                                                      codes, RoutePermission[req[c].route]),
                                        !.by = "RequirePermission", !.looked = TRUE,
                                        !.identity = req[c].identity, !.codes = codes]
              /\ req' = Canon([req EXCEPT ![c] = Returned(wg)])
         ELSE /\ req' = Canon([req EXCEPT ![c] = [req[c] EXCEPT !.pc = "handler", !.codes = codes]])
              /\ resp' = NoResp
  /\ UNCHANGED <<traffic, catalogVars, accountVars>>

\* the handler of a route called with no regard to the gates before it
AtHandler_AnyStage(c, route) == req[c].route = route

\* the handler of route is next for request c
AtHandler(c, route) == req[c].pc = "handler" /\ req[c].route = route

(***************************************************************************)
(* cmd/api/handlers.go: the catalog handlers.                              *)
(***************************************************************************)
MovieResp(route, status, id, version) ==
  [NoResp EXCEPT !.route = route, !.status = status, !.id = id, !.version = version,
                 !.by = "handler", !.looked = TRUE]

\* data.ValidateFilters
ValidateFilters(filter) ==
  {k \in {"page"} : ~(filter.Page >= 1 /\ filter.PageSize <= 10000000)}
    \cup {k \in {"page_size"} : ~(filter.PageSize >= 1 /\ filter.PageSize <= 100)}
    \cup {k \in {"page_size"} :
            filter.Sort \notin {"id", "title", "year", "runtime", "-id", "-title", "-year", "-runtime"}}

\* GET /v1/movies, with no title and no genres to match: Movies.GetAll returns
\* the rows of the page; id is their number
getMoviesHandler(c) ==
  /\ resp = NoResp
  /\ Alive
  /\ UNCHANGED supervisorVars
  /\ AtHandler(c, "getMovies")
  /\ \E query \in ListQueries :
       LET offset == (query.Page - 1) * query.PageSize
           rows == {i \in DOMAIN movies :
                      Cardinality({j \in DOMAIN movies : j < i}) \in offset..(offset + query.PageSize - 1)}
       IN  IF ValidateFilters(query) # {}
           THEN /\ Respond(c, MovieResp("getMovies", 422, 0, 0))
                /\ UNCHANGED shown
           ELSE /\ Respond(c, MovieResp("getMovies", 200, Cardinality(rows), 0))
                /\ shown' = [i \in MovieIDs |->
                               IF i \in rows /\ (shown[i] = 0 \/ movies[i].Version < shown[i])
                               THEN movies[i].Version ELSE shown[i]]
  /\ UNCHANGED <<movies, nextMovieID, movieUpdates>>
  /\ UNCHANGED <<traffic, accountVars>>

\* POST /v1/movies
createMovieHandler(c) ==
  /\ resp = NoResp
  /\ Alive
  /\ UNCHANGED supervisorVars
  /\ AtHandler(c, "createMovie")
  /\ \E body \in CreateBodies :
       LET movie == [ZeroMovie EXCEPT !.Title = body.Title, !.Year = body.Year,
                                      !.Runtime = body.Runtime, !.Genres = body.Genres]
           r == MovieInsert(movies, nextMovieID, movie)
       IN  IF body.bad
           THEN /\ Respond(c, MovieResp("createMovie", 400, 0, 0))
                /\ UNCHANGED catalogVars
           ELSE IF ValidateMovie(movie) # {}
           THEN /\ Respond(c, MovieResp("createMovie", 422, 0, 0))
                /\ UNCHANGED catalogVars
           ELSE /\ nextMovieID <= MaxMovies
                /\ movies' = r.movies
                /\ nextMovieID' = nextMovieID + 1
                /\ Respond(c, MovieResp("createMovie", 201, r.movie.ID, r.movie.Version))
                /\ Learn(r.movie.ID, r.movie.Version)
                /\ UNCHANGED movieUpdates
  /\ UNCHANGED <<traffic, accountVars>>

\* GET /v1/movies/:id
showMovieHandler(c) ==
  /\ resp = NoResp
  /\ Alive
  /\ UNCHANGED supervisorVars
  /\ AtHandler(c, "showMovie")
  /\ \E p \in IDParams :
       LET a == readIDParam(p)
           r == MovieGet(movies, a.id)
       IN  IF a.err \/ r.err = ErrNoRecordFound
           THEN /\ Respond(c, [MovieResp("showMovie", 404, a.id, 0) EXCEPT !.err = r.err])
                /\ UNCHANGED shown
           ELSE /\ Respond(c, MovieResp("showMovie", 200, a.id, r.movie.Version))
                /\ Learn(a.id, r.movie.Version)
  /\ UNCHANGED <<movies, nextMovieID, movieUpdates>>
  /\ UNCHANGED <<traffic, accountVars>>

\* the switch without its case for ErrEditConflict
updateMovieHandler_Status_NoConflictCase(err) ==
  IF err = ErrNone THEN 201 ELSE 500

\* updateMovieHandler's switch on the error of Movies.Update: the status it answers
updateMovieHandler_Status(err) ==
  IF err = ErrEditConflict THEN 409
  ELSE IF err = ErrNone THEN 201
  ELSE 500

\* PATCH /v1/movies/:id, up to its conditional write: readIDParam, Movies.Get,
\* Bind, the merge and ValidateMovie
updateMovieHandler_Get(c) ==
  /\ resp = NoResp
  /\ Alive
  /\ UNCHANGED supervisorVars
  /\ AtHandler(c, "updateMovie")
  /\ \E p \in IDParams, body \in PatchBodies : \E stale \in Callers(readIDParam(p).id) :
       LET a == readIDParam(p)
           r == MovieGet(movies, a.id)
           movie == MergePatch(r.movie, body)
           answer(status) == [MovieResp("updateMovie", status, a.id, 0) EXCEPT
                                !.err = r.err, !.stale = stale]
       IN  IF a.err \/ r.err = ErrNoRecordFound THEN Respond(c, answer(404))
           ELSE IF body.bad THEN Respond(c, answer(400))
           ELSE IF ValidateMovie(movie) # {} THEN Respond(c, answer(422))
           ELSE /\ req' = Canon([req EXCEPT ![c] = [req[c] EXCEPT !.pc = "updateMovie_Update",
                                                !.movie = movie, !.stale = stale]])
                /\ resp' = NoResp
  /\ UNCHANGED catalogVars
  /\ UNCHANGED <<traffic, accountVars>>

\* PATCH /v1/movies/:id: Movies.Update and the response
updateMovieHandler_Update(c) ==
  /\ resp = NoResp
  /\ Alive
  /\ UNCHANGED supervisorVars
  /\ req[c].pc = "updateMovie_Update"
  /\ LET movie == req[c].movie
         r == MovieUpdate(movies, movie)
         status == updateMovieHandler_Status(r.err)
     IN  /\ r.err = ErrNone => r.movie.Version <= MaxVersion
         /\ movies' = r.movies
         /\ movieUpdates' = IF r.err = ErrNone
                            THEN [movieUpdates EXCEPT ![movie.ID][movie.Version] = @ + 1]
                            ELSE movieUpdates
         /\ Respond(c, [MovieResp("updateMovie", status, movie.ID, r.movie.Version) EXCEPT
                          !.err = r.err, !.sent = movie.Version,
                          !.attempts = req[c].attempts + 1, !.stale = req[c].stale])
         /\ IF status = 201 THEN Learn(movie.ID, r.movie.Version) ELSE UNCHANGED shown
  /\ UNCHANGED nextMovieID
  /\ UNCHANGED <<traffic, accountVars>>

\* DELETE /v1/movies/:id
deleteMovieHandler(c) ==
  /\ resp = NoResp
  /\ Alive
  /\ UNCHANGED supervisorVars
  /\ AtHandler(c, "deleteMovie")
  /\ \E p \in IDParams : \E stale \in Callers(readIDParam(p).id) :
       LET a == readIDParam(p)
           r == MovieDelete(movies, a.id)
       IN  IF a.err
           THEN /\ Respond(c, MovieResp("deleteMovie", 404, a.id, 0))
                /\ UNCHANGED movies
           ELSE /\ movies' = r.movies
                /\ Respond(c, [MovieResp("deleteMovie", IF r.err = ErrNoRecordFound THEN 404 ELSE 200, a.id, 0)
                                 EXCEPT !.err = r.err, !.stale = stale])
  /\ UNCHANGED <<nextMovieID, shown, movieUpdates>>
  /\ UNCHANGED <<traffic, accountVars>>

(***************************************************************************)
(* cmd/api/handlers.go: the account handlers.                              *)
(***************************************************************************)
AccountResp(route, status, id, token) ==
  [NoResp EXCEPT !.route = route, !.status = status, !.id = id, !.token = token,
                 !.by = "handler"]

\* registerUserHandler building an activated user
NewUser_Activated(body) ==
  [ZeroUser EXCEPT !.Name = body.Name, !.Email = body.Email,
                   !.Activated = TRUE, !.Hash = Bcrypt(body.Password)]

\* registerUserHandler: the data.User it builds from the body, and Password.Set
NewUser(body) ==
  [ZeroUser EXCEPT !.Name = body.Name, !.Email = body.Email,
                   !.Activated = FALSE, !.Hash = Bcrypt(body.Password)]

\* POST /v1/users, up to Users.Insert: Bind, Password.Set, ValidateUser, Users.Insert
registerUserHandler_Insert(c) ==
  /\ traffic = "accounts"
  /\ resp = NoResp
  /\ Alive
  /\ UNCHANGED supervisorVars
  /\ Free(c)
  /\ \E body \in RegisterBodies :
       LET user == NewUser(body)
           r == UserInsert(users, nextUserID, user)
       IN  IF body.bad
           THEN /\ Respond(c, AccountResp("registerUser", 400, 0, 0))
                /\ UNCHANGED <<users, nextUserID>>
           ELSE IF ValidateUser(user, body.Password) # {}
           THEN /\ Respond(c, AccountResp("registerUser", 422, 0, 0))
                /\ UNCHANGED <<users, nextUserID>>
           ELSE IF r.err = ErrDuplicateEmail
           THEN /\ Respond(c, [AccountResp("registerUser", 422, 0, 0) EXCEPT !.err = r.err])
                /\ UNCHANGED <<users, nextUserID>>
           ELSE /\ users' = r.users
                /\ nextUserID' = nextUserID + 1
                /\ req' = Canon([req EXCEPT ![c] = [IdleReq EXCEPT !.pc = "registerUser_AddForUser",
                                                !.user = r.user]])
                /\ resp' = NoResp
  /\ UNCHANGED <<tokens, nextToken, permissions, now, userUpdates, activations, issued, revoked>>
  /\ UNCHANGED <<traffic, catalogVars>>

\* POST /v1/users: Permissions.AddForUser
registerUserHandler_AddForUser(c) ==
  /\ traffic = "accounts"
  /\ resp = NoResp
  /\ Alive
  /\ UNCHANGED supervisorVars
  /\ req[c].pc = "registerUser_AddForUser"
  /\ permissions' = PermissionsAddForUser(permissions, req[c].user.ID)
  /\ req' = Canon([req EXCEPT ![c] = [req[c] EXCEPT !.pc = "registerUser_New"]])
  /\ UNCHANGED <<users, nextUserID, tokens, nextToken, now, userUpdates, activations, issued, revoked>>
  /\ resp' = NoResp
  /\ UNCHANGED <<traffic, catalogVars>>

\* POST /v1/users: Tokens.New for the activation token, app.background with the
\* welcome mail, and the response
registerUserHandler_New(c) ==
  /\ traffic = "accounts"
  /\ resp = NoResp
  /\ Alive
  /\ wg' = wg + 1
  /\ UNCHANGED process
  /\ req[c].pc = "registerUser_New"
  /\ nextToken <= MaxTokens
  /\ tokens' = TokenNew(tokens, nextToken, req[c].user.ID, ActivationTTL, ScopeActivation, now)
  /\ issued' = [issued EXCEPT ![nextToken] = [UserID |-> req[c].user.ID, Scope |-> ScopeActivation,
                                              Expiry |-> now + ActivationTTL]]
  /\ nextToken' = nextToken + 1
  /\ RespondAfter(c, [AccountResp("registerUser", 201, req[c].user.ID, 0) EXCEPT
                        !.version = req[c].user.Version], wg + 1)
  /\ UNCHANGED <<users, nextUserID, permissions, now, userUpdates, activations, revoked>>
  /\ UNCHANGED <<traffic, catalogVars>>

\* the handler answering 200 right after Users.Update, Tokens.DeleteAllForUser left out
activateUserHandler_AfterUpdate_NoDelete(err) ==
  IF err = ErrEditConflict THEN [pc |-> "idle", status |-> 409]
  ELSE IF err = ErrNone THEN [pc |-> "idle", status |-> 200]
  ELSE [pc |-> "idle", status |-> 500]

\* activateUserHandler's switch on the error of Users.Update: where it goes next,
\* and the status it answers when it returns
activateUserHandler_AfterUpdate(err) ==
  IF err = ErrEditConflict THEN [pc |-> "idle", status |-> 409]
  ELSE IF err = ErrNone THEN [pc |-> "activateUser_DeleteAllForUser", status |-> 0]
  ELSE [pc |-> "idle", status |-> 500]

\* the response of the activation handler; a 200 enters the history
AnswerActivation(c, r) ==
  /\ Respond(c, r)
  /\ activations' = IF r.status = 200 THEN [activations EXCEPT ![r.token] = @ + 1] ELSE activations
  /\ revoked' = IF r.status = 200
                THEN revoked \cup {p \in Plaintexts : issued[p].UserID = r.id /\ issued[p].Scope = ScopeActivation}
                ELSE revoked

\* activateUserHandler, up to Users.Update: the error it returns (nil: it goes on
\* to Users.Update); the 422 of a failed lookup is v.Errors with the one key "token"
activateUserHandler_Err(body, us, toks, time) ==
  LET r == UserGetByToken(us, toks, ScopeActivation, body.Token, time)
  IN  IF body.bad THEN NewHTTPError(400, "")
      ELSE IF ValidateTokenPlainText(body.Token) # {} THEN NewHTTPError(422, "")
      ELSE IF r.err = ErrNoRecordFound
      THEN NewHTTPError(422, "token: invalid or expired activation token")
      ELSE IF r.err # ErrNone THEN PlainError(r.err)
      ELSE PlainError(ErrNone)

\* PUT /v1/users/activated, up to its conditional write: Bind,
\* ValidateTokenPlainText, Users.GetByToken, user.Activated = true
activateUserHandler_GetByToken(c) ==
  /\ traffic = "accounts"
  /\ resp = NoResp
  /\ Alive
  /\ UNCHANGED supervisorVars
  /\ Free(c)
  /\ \E body \in ActivateBodies :
       LET r == UserGetByToken(users, tokens, ScopeActivation, body.Token, now)
           err == activateUserHandler_Err(body, users, tokens, now)
           answer == customHTTPErrorHandler(err)
       IN  IF err # PlainError(ErrNone)
           THEN Respond(c, [AccountResp("activateUser", answer.status, 0, body.Token)
                              EXCEPT !.message = answer.message,
                                     !.err = IF body.bad \/ ValidateTokenPlainText(body.Token) # {}
                                             THEN ErrNone ELSE r.err])
           ELSE /\ req' = Canon([req EXCEPT ![c] = [IdleReq EXCEPT !.pc = "activateUser_Update",
                                                !.user = [r.user EXCEPT !.Activated = TRUE],
                                                !.token = body.Token]])
                /\ resp' = NoResp
  /\ UNCHANGED <<traffic, catalogVars, accountVars>>

\* PUT /v1/users/activated: Users.Update
activateUserHandler_Update(c) ==
  /\ traffic = "accounts"
  /\ resp = NoResp
  /\ Alive
  /\ UNCHANGED supervisorVars
  /\ req[c].pc = "activateUser_Update"
  /\ LET user == req[c].user
         r == UserUpdate(users, user)
         next == activateUserHandler_AfterUpdate(r.err)
     IN  /\ r.err = ErrNone => r.user.Version <= MaxVersion
         /\ users' = r.users
         /\ userUpdates' = IF r.err = ErrNone
                           THEN [userUpdates EXCEPT ![user.ID][user.Version] = @ + 1]
                           ELSE userUpdates
         /\ IF next.pc = "idle"
            THEN AnswerActivation(c, [AccountResp("activateUser", next.status, user.ID, req[c].token)
                                        EXCEPT !.version = r.user.Version, !.err = r.err,
                                               !.sent = user.Version, !.attempts = req[c].attempts + 1])
            ELSE /\ req' = Canon([req EXCEPT ![c] = [req[c] EXCEPT !.pc = next.pc, !.user = r.user,
                                                 !.sent = user.Version, !.attempts = @ + 1]])
                 /\ resp' = NoResp
                 /\ UNCHANGED <<activations, revoked>>
  /\ UNCHANGED <<nextUserID, tokens, nextToken, permissions, now, issued>>
  /\ UNCHANGED <<traffic, catalogVars>>

\* PUT /v1/users/activated: Tokens.DeleteAllForUser and the response
activateUserHandler_DeleteAllForUser(c) ==
  /\ traffic = "accounts"
  /\ resp = NoResp
  /\ Alive
  /\ UNCHANGED supervisorVars
  /\ req[c].pc = "activateUser_DeleteAllForUser"
  /\ tokens' = TokenDeleteAllForUser(tokens, ScopeActivation, req[c].user.ID)
  /\ AnswerActivation(c, [AccountResp("activateUser", 200, req[c].user.ID, req[c].token)
                            EXCEPT !.version = req[c].user.Version, !.sent = req[c].sent,
                                   !.attempts = req[c].attempts])
  /\ UNCHANGED <<users, nextUserID, nextToken, permissions, now, userUpdates, issued>>
  /\ UNCHANGED <<traffic, catalogVars>>

\* authenticationTokenHandler answering an unknown email with 404 and its own text
authenticationTokenHandler_Err_TellsUnknownEmail(body, us) ==
  LET r == UserGetByEmail(us, body.Email)
  IN  IF body.bad THEN NewHTTPError(400, "")
      ELSE IF ValidateEmail(body.Email) \cup ValidPlainText(body.Password) # {}
      THEN NewHTTPError(422, "")
      ELSE IF r.err = ErrNoRecordFound
      THEN NewHTTPError(404, "no account with this email address")
      ELSE IF ~PasswordMatches(r.user.Hash, body.Password)
      THEN NewHTTPError(401, "invalid authentication credentials")
      ELSE PlainError(ErrNone)

\* authenticationTokenHandler, up to Tokens.New: the error it returns (nil: it
\* goes on to Tokens.New)
authenticationTokenHandler_Err(body, us) ==
  LET r == UserGetByEmail(us, body.Email)
  IN  IF body.bad THEN NewHTTPError(400, "")
      ELSE IF ValidateEmail(body.Email) \cup ValidPlainText(body.Password) # {}
      THEN NewHTTPError(422, "")
      ELSE IF r.err = ErrNoRecordFound
      THEN NewHTTPError(401, "invalid authentication credentials")
      ELSE IF ~PasswordMatches(r.user.Hash, body.Password)
      THEN NewHTTPError(401, "invalid authentication credentials")
      ELSE PlainError(ErrNone)

\* POST /v1/users/authentication, up to Tokens.New: Bind, ValidateEmail,
\* ValidPlainText, Users.GetByEmail, Password.Matches
authenticationTokenHandler_GetByEmail(c) ==
  /\ traffic = "accounts"
  /\ resp = NoResp
  /\ Alive
  /\ UNCHANGED supervisorVars
  /\ Free(c)
  /\ \E body \in LoginBodies :
       LET r == UserGetByEmail(users, body.Email)
           err == authenticationTokenHandler_Err(body, users)
           answer == customHTTPErrorHandler(err)
       IN  IF err # PlainError(ErrNone)
           THEN Respond(c, [AccountResp("authenticationToken", answer.status, r.user.ID, 0)
                              EXCEPT !.message = answer.message,
                                     !.err = IF answer.status = 401 THEN r.err ELSE ErrNone])
           ELSE /\ req' = Canon([req EXCEPT ![c] = [IdleReq EXCEPT !.pc = "authenticationToken_New",
                                                !.user = r.user]])
                /\ resp' = NoResp
  /\ UNCHANGED <<traffic, catalogVars, accountVars>>

\* POST /v1/users/authentication: Tokens.New for the authentication token, and
\* the response, which carries the plaintext
authenticationTokenHandler_New(c) ==
  /\ traffic = "accounts"
  /\ resp = NoResp
  /\ Alive
  /\ UNCHANGED supervisorVars
  /\ req[c].pc = "authenticationToken_New"
  /\ nextToken <= MaxTokens
  /\ tokens' = TokenNew(tokens, nextToken, req[c].user.ID, AuthTTL, ScopeAuth, now)
  /\ issued' = [issued EXCEPT ![nextToken] = [UserID |-> req[c].user.ID, Scope |-> ScopeAuth,
                                              Expiry |-> now + AuthTTL]]
  /\ nextToken' = nextToken + 1
  /\ Respond(c, AccountResp("authenticationToken", 201, req[c].user.ID, nextToken))
  /\ UNCHANGED <<users, nextUserID, permissions, now, userUpdates, activations, revoked>>
  /\ UNCHANGED <<traffic, catalogVars>>

\* the grants of a stored user change: a write to the permissions table by
\* another client of the database (the program has no route that does it)
PermissionsChange ==
  /\ traffic = "grants"
  /\ resp = NoResp
  /\ Alive
  /\ UNCHANGED supervisorVars
  /\ \E i \in DOMAIN users, code \in {"movies:read", "movies:write"} :
       permissions' = IF <<i, code>> \in permissions
                      THEN permissions \ {<<i, code>>}
                      ELSE permissions \cup {<<i, code>>}
  /\ UNCHANGED <<users, nextUserID, tokens, nextToken, now, userUpdates, activations,
                 issued, revoked>>
  /\ UNCHANGED <<req, resp, traffic, catalogVars>>

\* a day passes
Tick ==
  /\ traffic = "accounts"
  /\ resp = NoResp
  /\ Alive
  /\ UNCHANGED supervisorVars
  /\ now < MaxTime
  /\ now' = now + 1
  /\ UNCHANGED <<users, nextUserID, tokens, nextToken, permissions, userUpdates, activations,
                 issued, revoked>>
  /\ resp' = NoResp
  /\ UNCHANGED <<req, traffic, catalogVars>>

\* the response of a request goes out, by c.JSON or by customHTTPErrorHandler,
\* before the next step of any request: writing it touches nothing a request reads
WriteResponse ==
  /\ resp # NoResp
  /\ resp' = NoResp
  /\ UNCHANGED <<req, traffic, catalogVars, accountVars, supervisorVars>>

(***************************************************************************)
(* The supervisor: background, CustomRecover and the shutdown in main.     *)
(***************************************************************************)
\* the dynamic type of the value a task's fn panics with
PanicValues == {"string", "error"}

\* what recover() returns in the task's deferred function: nil when fn
\* returned (the mail was sent, or Send's error was logged), else the value
Recovered == {None} \cup {Some(v) : v \in PanicValues}

\* background's deferred function: logger.Error(err.(string)) on a recovered
\* value; the type assertion panics on a value that is not a string
background_Recover(recovered) ==
  IF ~IsSet(recovered) THEN "returns"
  ELSE IF Deref(recovered) = "string" THEN "returns"
  ELSE "panics"

\* a task submitted with app.background runs to its end: fn, the deferred
\* recover, then the deferred wg.Done; a panic that leaves the goroutine ends
\* the process
background(fn) ==
  /\ wg' = wg - 1
  /\ process' = IF background_Recover(fn) = "panics" THEN "crashed" ELSE process

background_Task ==
  /\ resp = NoResp
  /\ Alive
  /\ wg > 0
  /\ \E fn \in Recovered : background(fn)
  /\ resp' = NoResp
  /\ UNCHANGED <<req, traffic, catalogVars, accountVars>>

\* CustomRecover: app.wg.Wait() returns and the request completes
CustomRecover(c) ==
  /\ resp = NoResp
  /\ Alive
  /\ req[c].pc = "CustomRecover_Wait"
  /\ ~CustomRecover_Waits(wg)
  /\ req' = Canon([req EXCEPT ![c] = IdleReq])
  /\ resp' = NoResp
  /\ UNCHANGED <<traffic, catalogVars, accountVars, supervisorVars>>

\* a task is in flight, or a request in flight is going to submit one
TaskPending ==
  \/ wg > 0
  \/ \E c \in Requests : req[c].pc \in {"registerUser_AddForUser", "registerUser_New"}

\* main: the interrupt signal arrives and e.Shutdown is called; the listener
\* closes. The interrupts followed are those that meet a pending task: after
\* any other one no request starts and no task is ever submitted, and the
\* requests in flight go on as they do in a process that is not interrupted
Interrupt ==
  /\ TaskPending
  /\ resp = NoResp
  /\ process = "running"
  /\ process' = "shutting"
  /\ resp' = NoResp
  /\ UNCHANGED <<req, traffic, catalogVars, accountVars, wg>>

\* main: e.Shutdown returns nil once no request is active, and main returns
Shutdown ==
  /\ resp = NoResp
  /\ process = "shutting"
  /\ \A c \in Requests : req[c].pc = "idle"
  /\ process' = "exited"
  /\ resp' = NoResp
  /\ UNCHANGED <<req, traffic, catalogVars, accountVars, wg>>

\* main: the timeout of e.Shutdown's context passes while a request is active;
\* Shutdown returns the context's error and e.Logger.Fatal ends the process
Shutdown_Deadline ==
  /\ resp = NoResp
  /\ process = "shutting"
  /\ \E c \in Requests : req[c].pc # "idle"
  /\ process' = "timedout"
  /\ resp' = NoResp
  /\ UNCHANGED <<req, traffic, catalogVars, accountVars, wg>>

(***************************************************************************)
(* Store calls that fail and handlers that panic.                          *)
(***************************************************************************)
\* database/sql's errors: sql.ErrNoRows, and the error of a call whose context
\* (context.WithTimeout of 3 seconds) has passed its deadline
SqlErrNoRows == "sql: no rows in result set"
ErrDeadline == "context deadline exceeded"

\* the first store call of a request to each catalog route, once it is in the handler
HandlerCall ==
  [getMovies |-> "getMovies_GetAll", createMovie |-> "createMovie_Insert",
   showMovie |-> "showMovie_Get", updateMovie |-> "updateMovie_Get",
   deleteMovie |-> "deleteMovie_Delete"]

\* the first store call of a request to each account route
AccountCall ==
  [registerUser |-> "registerUser_Insert", activateUser |-> "activateUser_GetByToken",
   authenticationToken |-> "authenticationToken_GetByEmail"]

\* the later store calls of the handlers, named as the stage that makes them
LaterCalls ==
  {"updateMovie_Update", "registerUser_AddForUser", "registerUser_New",
   "activateUser_Update", "activateUser_DeleteAllForUser", "authenticationToken_New"}

\* the store calls, named by the caller and the method
StoreCalls ==
  {"Authenticate_GetByToken", "RequirePermission_GetAllForUser"}
    \cup Range(HandlerCall) \cup Range(AccountCall) \cup LaterCalls

\* the store methods answering a deadline as they answer sql.ErrNoRows
ModelErr_DeadlineAsNoRows(call, sqlErr) ==
  IF call \in {"updateMovie_Update", "activateUser_Update"} THEN ErrEditConflict
  ELSE ErrNoRecordFound

\* the store methods' switch on the error of the driver (not nil): what the
\* method returns to its caller
ModelErr(call, sqlErr) ==
  IF sqlErr = SqlErrNoRows
       /\ call \in {"Authenticate_GetByToken", "activateUser_GetByToken", "showMovie_Get",
                    "updateMovie_Get", "authenticationToken_GetByEmail"}
  THEN ErrNoRecordFound
  ELSE IF sqlErr = SqlErrNoRows /\ call \in {"updateMovie_Update", "activateUser_Update"}
  THEN ErrEditConflict
  ELSE sqlErr

\* the caller's switch on the error of its store call (not nil): the error it
\* returns to echo
HandlerErr(call, err) ==
  IF call = "Authenticate_GetByToken" /\ err = ErrNoRecordFound
  THEN NewHTTPError(401, "invalid authentication token")
  ELSE IF call = "showMovie_Get" /\ err = ErrNoRecordFound
  THEN NewHTTPError(404, "Movie not found")
  ELSE IF call \in {"updateMovie_Get", "deleteMovie_Delete"} /\ err = ErrNoRecordFound
  THEN NewHTTPError(404, ErrNoRecordFound)
  ELSE IF call \in {"updateMovie_Update", "activateUser_Update"} /\ err = ErrEditConflict
  THEN NewHTTPError(409, ErrEditConflict)
  ELSE IF call = "registerUser_Insert" /\ err = ErrDuplicateEmail
  THEN NewHTTPError(422, "email: a user with this email address already exists")
  ELSE IF call = "activateUser_GetByToken" /\ err = ErrNoRecordFound
  THEN NewHTTPError(422, "token: invalid or expired activation token")
  ELSE IF call = "authenticationToken_GetByEmail" /\ err = ErrNoRecordFound
  THEN NewHTTPError(401, "invalid authentication credentials")
  ELSE PlainError(err)

\* the store call request c makes next; in a free slot, the first store call of
\* a request that arrives: Users.GetByToken for a catalog route called with a
\* token, and the handler's first call for an account route
Calls(c) ==
  IF Free(c)
  THEN {"Authenticate_GetByToken"} \cup {AccountCall[r] : r \in {q \in DOMAIN AccountCall : traffic = "accounts"}}
  ELSE IF req[c].pc = "RequirePermission" THEN {"RequirePermission_GetAllForUser"}
  ELSE IF req[c].pc = "handler" THEN {HandlerCall[req[c].route]}
  ELSE {req[c].pc} \cap LaterCalls

\* the route whose handler makes the call
CallRoute ==
  [getMovies_GetAll |-> "getMovies", createMovie_Insert |-> "createMovie",
   showMovie_Get |-> "showMovie", updateMovie_Get |-> "updateMovie",
   updateMovie_Update |-> "updateMovie", deleteMovie_Delete |-> "deleteMovie",
   registerUser_Insert |-> "registerUser", registerUser_AddForUser |-> "registerUser",
   registerUser_New |-> "registerUser", activateUser_GetByToken |-> "activateUser",
   activateUser_Update |-> "activateUser", activateUser_DeleteAllForUser |-> "activateUser",
   authenticationToken_GetByEmail |-> "authenticationToken",
   authenticationToken_New |-> "authenticationToken"]

\* who makes the call: a middleware, or the handler of a route
Caller(c, call) ==
  IF call = "Authenticate_GetByToken" THEN [by |-> "Authenticate", route |-> "none"]
  ELSE IF call = "RequirePermission_GetAllForUser"
  THEN [by |-> "RequirePermission", route |-> req[c].route]
  ELSE [by |-> "handler", route |-> CallRoute[call]]

\* a store call of request c passes its deadline: the statement is cancelled and
\* changes nothing, the method returns the context's error, and the caller
\* returns what its switch makes of it
StoreDeadline(c) ==
  /\ resp = NoResp
  /\ Alive
  /\ UNCHANGED supervisorVars
  /\ \E call \in Calls(c) :
       LET err == ModelErr(call, ErrDeadline)
           answer == customHTTPErrorHandler(HandlerErr(call, err))
           who == Caller(c, call)
       IN  /\ resp' = [NoResp EXCEPT !.route = who.route, !.by = who.by, !.call = call,
                                     !.err = err, !.status = answer.status,
                                     !.message = answer.message,
                                     !.id = req[c].user.ID, !.identity = req[c].identity]
           /\ req' = Canon([req EXCEPT ![c] = Returned(wg)])
  /\ UNCHANGED <<traffic, catalogVars, accountVars>>

\* CustomRecover's deferred function: when recover() returns a value it sets
\* Connection: close and returns before app.wg.Wait(), and what it returns is
\* dropped: the middleware's result is that of "return next(c)", which was not
\* reached, so it is nil; otherwise the result is next's
CustomRecover_Defer(recovered, err) ==
  [err |-> IF recovered THEN PlainError(ErrNone) ELSE err,
   close |-> recovered,
   waits |-> ~recovered]

\* echo's ServeHTTP after the chain returned err without writing a response:
\* the error handler for an error, and for nil net/http's own 200 with no body
ServeHTTP(err) ==
  IF err = PlainError(ErrNone) THEN [status |-> 200, message |-> ""]
  ELSE customHTTPErrorHandler(err)

\* the handler (or a middleware inside CustomRecover) panics while request c is
\* at one of its store calls: what was written to the store stays, nothing was
\* written to the response
HandlerPanic(c) ==
  /\ resp = NoResp
  /\ Alive
  /\ UNCHANGED supervisorVars
  /\ \E call \in Calls(c) :
       LET out == CustomRecover_Defer(TRUE, PlainError(ErrNone))
           answer == ServeHTTP(out.err)
           who == Caller(c, call)
       IN  /\ resp' = [NoResp EXCEPT !.route = who.route, !.by = "CustomRecover", !.call = call,
                                     !.err = "panic", !.status = answer.status,
                                     !.message = answer.message, !.close = out.close,
                                     !.id = req[c].user.ID, !.identity = req[c].identity]
           /\ req' = Canon([req EXCEPT ![c] = IF out.waits THEN Returned(wg) ELSE IdleReq])
  /\ UNCHANGED <<traffic, catalogVars, accountVars>>

Next ==
  \/ \E c \in Requests :
        \/ Authenticate(c)
        \/ RequirePermission(c)
        \/ getMoviesHandler(c)
        \/ createMovieHandler(c)
        \/ showMovieHandler(c)
        \/ updateMovieHandler_Get(c)
        \/ updateMovieHandler_Update(c)
        \/ deleteMovieHandler(c)
        \/ registerUserHandler_Insert(c)
        \/ registerUserHandler_AddForUser(c)
        \/ registerUserHandler_New(c)
        \/ activateUserHandler_GetByToken(c)
        \/ activateUserHandler_Update(c)
        \/ activateUserHandler_DeleteAllForUser(c)
        \/ authenticationTokenHandler_GetByEmail(c)
        \/ authenticationTokenHandler_New(c)
        \/ CustomRecover(c)
  \/ background_Task
  \/ Interrupt
  \/ Shutdown
  \/ Shutdown_Deadline
  \/ Tick
  \/ WriteResponse

Spec == Init /\ [][Next]_vars

\* an activated user's requests to a catalog route that reads and one that
\* writes, while the user's grants change in the database
InitGrants ==
  /\ traffic = "grants"
  /\ Boot(Activated)

NextGrants ==
  \/ \E c \in Requests :
        \/ Authenticate(c)
        \/ RequirePermission(c)
        \/ createMovieHandler(c)
        \/ showMovieHandler(c)
  \/ PermissionsChange
  \/ WriteResponse

SpecGrants == InitGrants /\ [][NextGrants]_vars

\* the catalog with a user who may write, and the account routes on an empty
\* database, when store calls may pass their deadline and handlers may panic
InitFaults ==
  /\ traffic \in {"catalog", "accounts"}
  /\ Boot(IF traffic = "catalog" THEN Writer ELSE EmptyAccounts)

NextFaults ==
  \/ \E c \in Requests :
        \/ Authenticate(c)
        \/ RequirePermission(c)
        \/ getMoviesHandler(c)
        \/ createMovieHandler(c)
        \/ showMovieHandler(c)
        \/ updateMovieHandler_Get(c)
        \/ updateMovieHandler_Update(c)
        \/ deleteMovieHandler(c)
        \/ registerUserHandler_Insert(c)
        \/ registerUserHandler_AddForUser(c)
        \/ registerUserHandler_New(c)
        \/ activateUserHandler_GetByToken(c)
        \/ activateUserHandler_Update(c)
        \/ activateUserHandler_DeleteAllForUser(c)
        \/ authenticationTokenHandler_GetByEmail(c)
        \/ authenticationTokenHandler_New(c)
        \/ CustomRecover(c)
        \/ StoreDeadline(c)
        \/ HandlerPanic(c)
  \/ background_Task
  \/ WriteResponse

SpecFaults == InitFaults /\ [][NextFaults]_vars

(***************************************************************************)
(* The Concurrency Guard: Movies.Update and Users.Update.                  *)
(***************************************************************************)
RECURSIVE SumUpTo(_, _)
SumUpTo(counts, n) == IF n = 0 THEN 0 ELSE counts[n] + SumUpTo(counts, n - 1)

\* the successful updates a record has had
Successes(counts) == SumUpTo(counts, MaxVersion)

\* request c takes the step that is its conditional update
InFlight(q, r) == Cardinality({d \in Requests : q[d] = r})
Steps(c) == InFlight(req', req[c]) < InFlight(req, req[c])
MovieUpdateStep(c) == req[c].pc = "updateMovie_Update" /\ Steps(c)
UserUpdateStep(c) == req[c].pc = "activateUser_Update" /\ Steps(c)

\* C1: of the conditional updates of one movie or one user that carry the same
\* version v, whatever their interleaving, exactly one succeeds, leaving the
\* stored version at v+1, and every other one returns ErrEditConflict.
C1_ExactlyOneUpdateWins ==
  /\ \A i \in MovieIDs, v \in Versions : movieUpdates[i][v] <= 1
  /\ \A i \in UserIDs, v \in Versions : userUpdates[i][v] <= 1
  /\ (resp.route = "updateMovie" /\ resp.attempts = 1) =>
        IF resp.err = ErrNone
        THEN /\ movieUpdates[resp.id][resp.sent] = 1
             /\ movies[resp.id].Version = resp.sent + 1
        ELSE /\ resp.err = ErrEditConflict
             /\ resp.id \in DOMAIN movies =>
                  movieUpdates[resp.id][resp.sent] = 1 /\ movies[resp.id].Version > resp.sent
  /\ \A c \in Requests : req[c].pc = "activateUser_DeleteAllForUser" =>
        /\ userUpdates[req[c].user.ID][req[c].sent] = 1
        /\ req[c].user.Version = req[c].sent + 1
  /\ (resp.route = "activateUser" /\ resp.attempts = 1 /\ resp.err # ErrNone) =>
        /\ resp.err = ErrEditConflict
        /\ userUpdates[resp.id][resp.sent] = 1
        /\ users[resp.id].Version > resp.sent

\* a conditional update has just lost to another one that carried the same version
C1_Witness ==
  /\ resp.route = "updateMovie"
  /\ resp.err = ErrEditConflict
  /\ resp.id \in DOMAIN movies
  /\ movieUpdates[resp.id][resp.sent] = 1

\* C4: every successful update of a movie or of a user adds exactly 1 to the
\* stored version in the step that writes the fields, and only when the version
\* supplied is the stored one; the stored version never decreases, and it is the
\* version at insert plus the number of successful updates of the record.
C4_VersionCountsUpdates ==
  /\ [](\A i \in DOMAIN movies : movies[i].Version = InitialVersion + Successes(movieUpdates[i]))
  /\ [](\A i \in DOMAIN users : users[i].Version = InitialVersion + Successes(userUpdates[i]))
  /\ [][\A i \in DOMAIN movies \cap DOMAIN movies' :
          /\ movies'[i].Version >= movies[i].Version
          /\ movies'[i] # movies[i] =>
               \E c \in Requests :
                 /\ MovieUpdateStep(c)
                 /\ req[c].movie.Version = movies[i].Version
                 /\ movies'[i] = [req[c].movie EXCEPT !.Version = movies[i].Version + 1]]_vars
  /\ [][\A i \in DOMAIN users \cap DOMAIN users' :
          /\ users'[i].Version >= users[i].Version
          /\ users'[i] # users[i] =>
               \E c \in Requests :
                 /\ UserUpdateStep(c)
                 /\ req[c].user.Version = users[i].Version
                 /\ users'[i] = [req[c].user EXCEPT !.Version = users[i].Version + 1]]_vars

\* a movie has been updated twice since its insert
C4_Witness ==
  \E i \in DOMAIN movies :
    movies[i].Version = InitialVersion + 2 /\ Successes(movieUpdates[i]) = 2

\* C5: an update whose supplied version differs from the stored version returns
\* ErrEditConflict and leaves the stored record, fields and version, unchanged.
C5_ConflictChangesNothing ==
  [][/\ \A c \in Requests :
          (/\ MovieUpdateStep(c)
           /\ req[c].movie.ID \in DOMAIN movies
           /\ movies[req[c].movie.ID].Version # req[c].movie.Version)
          => (resp'.err = ErrEditConflict /\ movies' = movies)
     /\ \A c \in Requests :
          (/\ UserUpdateStep(c)
           /\ req[c].user.ID \in DOMAIN users
           /\ users[req[c].user.ID].Version # req[c].user.Version)
          => (resp'.err = ErrEditConflict /\ users' = users)]_vars

\* an activation has just been refused for its version, and the stored user is
\* still the one the winning activation wrote
C5_Witness ==
  /\ resp.route = "activateUser"
  /\ resp.err = ErrEditConflict
  /\ users[resp.id].Version = resp.sent + 1

\* C2: a PATCH of a movie by a caller whose last read of it is older than the
\* stored version is answered 409 Conflict, the stored movie unchanged.
C2_StalePatchIsRefused ==
  (resp.route = "updateMovie" /\ resp.stale /\ resp.attempts = 1) =>
    (resp.status = 409 /\ resp.err = ErrEditConflict)

\* C3: a DELETE of a movie that was modified since the caller last read it is
\* reported as an edit conflict, and the movie is still stored.
C3_StaleDeleteIsRefused ==
  (resp.route = "deleteMovie" /\ resp.stale) =>
    (resp.status = 409 /\ resp.id \in DOMAIN movies)

\* C6: a PATCH of a movie or an activation makes at most one conditional
\* update; when that update meets an edit conflict the request ends there with
\* 409 Conflict, so that a request still running after its update is one whose
\* update wrote its row.
C6_ConflictIsReportedOnce ==
  /\ resp.attempts <= 1
  /\ resp.err = ErrEditConflict => (resp.status = 409 /\ resp.attempts = 1)
  /\ \A c \in Requests :
        /\ req[c].attempts <= 1
        /\ req[c].attempts = 1 =>
             /\ req[c].pc = "activateUser_DeleteAllForUser"
             /\ req[c].user.Version = req[c].sent + 1

\* a request has just ended on the edit conflict of its one update, and no
\* request is running
C6_Witness ==
  /\ resp.status = 409
  /\ resp.err = ErrEditConflict
  /\ resp.attempts = 1
  /\ \A c \in Requests : req[c].pc = "idle"

\* C7: after a successful update the version in the caller's record is the
\* stored version, and a second update with that record succeeds as long as no
\* other writer has changed the row.
C7_ReturnedVersionChains ==
  /\ (resp.route = "updateMovie" /\ resp.status = 201) =>
        /\ resp.version = movies[resp.id].Version
        /\ MovieUpdate(movies, [movies[resp.id] EXCEPT !.Version = resp.version]).err = ErrNone
  /\ \A c \in Requests :
        (/\ req[c].pc = "activateUser_DeleteAllForUser"
         /\ userUpdates[req[c].user.ID][req[c].user.Version] = 0)
        => /\ req[c].user.Version = users[req[c].user.ID].Version
           /\ UserUpdate(users, req[c].user).err = ErrNone

\* a PATCH has just succeeded on a movie that an earlier PATCH had updated
C7_Witness ==
  /\ resp.route = "updateMovie"
  /\ resp.status = 201
  /\ resp.version = InitialVersion + 2

(***************************************************************************)
(* The Token Ledger: Users.GetByToken and the activation.                  *)
(***************************************************************************)
Scopes == {ScopeActivation, ScopeAuth}

Stored(plaintext) == \E t \in tokens : t.Hash = Sha256(plaintext)

\* C8: Users.GetByToken returns the owner exactly when a stored token has the
\* digest of the plaintext, the scope asked for and an expiry later than now;
\* for another scope than the one of issue, from the expiry on, and for a
\* plaintext no token was issued with, it returns ErrNoRecordFound.
C8_GetByTokenExactly ==
  [](
    \A scope \in Scopes, p \in Plaintexts :
      \A r \in {UserGetByToken(users, tokens, scope, p, now)} :
          /\ IF \E t \in tokens : t.Hash = Sha256(p) /\ t.Scope = scope /\ t.Expiry > now
             THEN r.err = ErrNone /\ r.user = users[issued[p].UserID]
             ELSE r.err = ErrNoRecordFound
          /\ issued[p].Scope # scope => r.err = ErrNoRecordFound
          /\ issued[p].Expiry <= now => r.err = ErrNoRecordFound
          /\ issued[p] = NotIssued => r.err = ErrNoRecordFound
          /\ (Stored(p) /\ issued[p].Scope = scope /\ issued[p].Expiry > now) => r.err = ErrNone
  )

\* an activation has just been refused a stored token of the other scope, while
\* a stored activation token is valid and another plaintext was never issued
C8_Witness ==
  /\ resp.route = "activateUser"
  /\ resp.err = ErrNoRecordFound
  /\ Stored(resp.token)
  /\ issued[resp.token].Scope = ScopeAuth
  /\ \E p \in Plaintexts : UserGetByToken(users, tokens, ScopeActivation, p, now).err = ErrNone
  /\ \E p \in Plaintexts : issued[p] = NotIssued

\* C9: once an activation of an identity has answered 200, every activation
\* token issued for that identity before fails Users.GetByToken with the scope
\* "activation", from then on.
C9_ActivationRevokesTokens ==
  \A p \in revoked : UserGetByToken(users, tokens, ScopeActivation, p, now).err = ErrNoRecordFound

\* an activation has answered 200 while its token had not reached its expiry
C9_Witness ==
  \E p \in revoked : issued[p].Expiry > now /\ activations[p] >= 1

\* C10: of the activation requests that present one activation token, whatever
\* their interleaving, at most one answers 200.
C10_TokenActivatesOnce ==
  \A p \in Plaintexts : activations[p] <= 1

\* request c takes the step that calls Permissions.GetAllForUser
LookupStep(c) == req[c].pc = "RequirePermission" /\ Steps(c)

\* an identity the activation gate lets through
Admitted(identity) == ~IsAnonymous(identity) /\ identity.user.Activated

\* C11: on a permission-gated route, Permissions.GetAllForUser is called only
\* for an identity that is not anonymous and is activated; a request with any
\* other identity is ended before the lookup.
C11_NoLookupBeforeActivationGate ==
  /\ [][\A c \in Requests : LookupStep(c) => Admitted(req[c].identity)]_vars
  /\ [](resp.looked => Admitted(resp.identity))
  /\ [](resp.by \in {"Authenticate", "RequireActivatedUser"} => ~resp.looked)

\* a request with a valid token of a user who is not activated has been ended
\* with no lookup, while that user holds a permission a lookup would return
C11_Witness ==
  /\ resp.by = "RequireActivatedUser"
  /\ ~resp.looked
  /\ ~IsAnonymous(resp.identity)
  /\ ~resp.identity.user.Activated
  /\ PermissionsGetAllForUser(permissions, resp.identity.user.ID) # {}

\* C12: the activation gate ends the request with 401 when the identity is the
\* anonymous sentinel and with 403 when it is a user with Activated false, and
\* in both cases nothing after the gate runs; any other identity goes on.
C12_ActivationGate ==
  /\ resp.by = "RequireActivatedUser" =>
        /\ ~Admitted(resp.identity)
        /\ resp.status = IF IsAnonymous(resp.identity) THEN 401 ELSE 403
        /\ ~resp.looked
        /\ resp.route = "none"
  /\ resp.by \in {"RequirePermission", "handler"} /\ resp.route \in GatedRoutes =>
        Admitted(resp.identity)
  /\ \A c \in Requests : req[c].route \in GatedRoutes => Admitted(req[c].identity)
  /\ \A identity \in {AnonymousUser} \cup {Fetched(users[i]) : i \in DOMAIN users} :
        /\ IsAnonymous(identity) => RequireActivatedUser(identity) = 401
        /\ ~IsAnonymous(identity) /\ ~identity.user.Activated =>
              RequireActivatedUser(identity) = 403
        /\ Admitted(identity) => RequireActivatedUser(identity) = 0

\* the gate has just refused a request that carried no Authorization header
C12_Witness ==
  /\ resp.by = "RequireActivatedUser"
  /\ IsAnonymous(resp.identity)
  /\ resp.status = 401

\* request c is in its catalog handler
InHandler(c) == req[c].pc \in {"handler", "updateMovie_Update"} /\ req[c].route \in GatedRoutes

\* the identity is admitted and the lookup returned the permission of the route
Authorized(route, identity, codes) ==
  Admitted(identity) /\ Include(codes, RoutePermission[route])

\* C13: a catalog handler runs only for a request whose identity is not
\* anonymous, is activated and held the permission of the route when
\* Permissions.GetAllForUser was called ("movies:write" for create, update and
\* delete, "movies:read" for list and show); every other request ends with 401
\* or 403, and the movies change only in a step of an authorized write.
C13_NoCatalogOperationWithoutAuthorization ==
  /\ [](\A c \in Requests : InHandler(c) => Authorized(req[c].route, req[c].identity, req[c].codes))
  /\ [](resp.by = "handler" /\ resp.route \in GatedRoutes =>
           Authorized(resp.route, resp.identity, resp.codes))
  /\ [](resp.by \in {"Authenticate", "RequireActivatedUser", "RequirePermission"} =>
           resp.status \in {401, 403})
  /\ [](resp.by = "RequirePermission" =>
           ~Include(resp.codes, RoutePermission[resp.route]) /\ resp.status = 403)
  /\ [][\A c \in Requests :
          LookupStep(c) =>
            LET codes == PermissionsGetAllForUser(permissions, req[c].identity.user.ID)
            IN  IF Include(codes, RoutePermission[req[c].route])
                THEN resp' = NoResp /\ InFlight(req', [req[c] EXCEPT !.pc = "handler", !.codes = codes]) >= 1
                ELSE /\ resp'.status = 403
                     /\ InFlight(req', Returned(wg)) > InFlight(req, Returned(wg))]_vars
  /\ [][<<movies, nextMovieID>> # <<movies', nextMovieID'>> =>
          \E c \in Requests :
            /\ InHandler(c) /\ Steps(c)
            /\ RoutePermission[req[c].route] = "movies:write"
            /\ Authorized(req[c].route, req[c].identity, req[c].codes)]_vars

\* an activated user who holds only "movies:read" has been refused a write by
\* RequirePermission
C13_Witness ==
  /\ resp.by = "RequirePermission"
  /\ resp.status = 403
  /\ RoutePermission[resp.route] = "movies:write"
  /\ Admitted(resp.identity)
  /\ resp.codes = {"movies:read"}

\* the header is "Bearer <token>" with a token of the right shape
WellFormed(header) == Len(header) = 2 /\ header[1] = "Bearer" /\ header[2] \in Plaintexts

\* plaintext p is a stored, unexpired token of the scope "authentication"
ValidAuth(p) == Stored(p) /\ issued[p].Scope = ScopeAuth /\ issued[p].Expiry > now

\* C14: Authenticate has exactly one outcome for each request: with no
\* Authorization header it attaches the anonymous sentinel and calls next; with
\* a header that is not "Bearer <token>", or a token of the wrong shape, it
\* answers 401 with WWW-Authenticate: Bearer and nothing after it runs; with a
\* well-formed token that is not a valid token of scope "authentication" it
\* answers 401; with a valid one it attaches the token's owner and calls next.
C14_AuthenticateOutcomes ==
  [](
    /\ \A header \in AuthHeaders :
        \A a \in {AuthenticateHeader(header, users, tokens, now)} :
              IF header = <<>>
              THEN a.status = 0 /\ a.identity = AnonymousUser /\ ~a.challenge
              ELSE IF ~WellFormed(header)
              THEN a.status = 401 /\ a.challenge
              ELSE IF ~ValidAuth(header[2])
              THEN a.status = 401
              ELSE /\ a.status = 0
                   /\ ~a.challenge
                   /\ a.identity = Fetched(users[issued[header[2]].UserID])
    /\ resp.by = "Authenticate" =>
          /\ resp.status = 401
          /\ resp.challenge
          /\ ~resp.looked
          /\ resp.identity = NoIdentity
    /\ resp.by # "Authenticate" => ~resp.challenge
    /\ \A c \in Requests : req[c].route \in GatedRoutes =>
          \E p \in Plaintexts :
            issued[p].Scope = ScopeAuth /\ req[c].identity.user.ID = issued[p].UserID
  )

\* Authenticate has just answered 401 with the challenge while a stored,
\* unexpired activation token and a valid authentication token exist
C14_Witness ==
  /\ resp.by = "Authenticate"
  /\ resp.status = 401
  /\ resp.challenge
  /\ \E p \in Plaintexts : Stored(p) /\ issued[p].Scope = ScopeActivation /\ issued[p].Expiry > now
  /\ \E p \in Plaintexts : ValidAuth(p)

\* request record r is in flight after the step and was not before it
Enters(r) == InFlight(req', r) > InFlight(req, r)

\* C15: within one request the order is fixed: Authenticate attaches the
\* identity before the activation gate and the permission check judge it, and
\* both have let the request through before its handler reads or changes the
\* store.
C15_OrderWithinRequest ==
  /\ [](\A c \in Requests : req[c].pc = "RequirePermission" =>
           /\ req[c].identity # NoIdentity
           /\ RequireActivatedUser(req[c].identity) = 0
           /\ req[c].codes = {})
  /\ [](\A c \in Requests : InHandler(c) =>
           /\ req[c].identity # NoIdentity
           /\ RequireActivatedUser(req[c].identity) = 0
           /\ RequirePermission_Status(req[c].codes, RoutePermission[req[c].route]) = 0)
  /\ [][\A c \in Requests :
          /\ req'[c].pc = "RequirePermission" /\ Enters(req'[c]) =>
                /\ InFlight(req', IdleReq) < InFlight(req, IdleReq)
                /\ UNCHANGED <<catalogVars, accountVars>>
          /\ req'[c].pc = "handler" /\ Enters(req'[c]) =>
                /\ \E d \in Requests : LookupStep(d) /\ req'[c].identity = req[d].identity
                /\ UNCHANGED <<catalogVars, accountVars>>]_vars
  /\ [][catalogVars' # catalogVars => \E c \in Requests : InHandler(c) /\ Steps(c)]_vars

\* a request that came through Authenticate and both gates has created a movie
C15_Witness ==
  /\ resp.by = "handler"
  /\ resp.route = "createMovie"
  /\ resp.err = ErrNone
  /\ resp.id \in DOMAIN movies
  /\ resp.identity # NoIdentity
  /\ Include(resp.codes, "movies:write")

\* C16: whatever happens inside a task submitted with background(fn), a panic
\* with a value of any type included, is caught at the task's boundary: the
\* process keeps running.
C16_TaskFailureIsContained ==
  process # "crashed"

\* C17: after the interrupt signal the process does not terminate while a task
\* submitted before is still running, unless the deadline of the shutdown has
\* passed: a task in flight keeps the request that submitted it, or one that
\* returned after it, active, and e.Shutdown returns nil only when no request is.
C17_ShutdownWaitsForTasks ==
  /\ process = "exited" => wg = 0
  /\ Alive /\ wg > 0 => \E c \in Requests : req[c].pc # "idle"

\* the shutdown is waiting for nothing but a request that waits for a task
C17_Witness ==
  /\ process = "shutting"
  /\ wg > 0
  /\ \E c \in Requests : req[c].pc = "CustomRecover_Wait"
  /\ \A c \in Requests : req[c].pc \in {"idle", "CustomRecover_Wait"}

\* C18: the completion of a request never waits for a background task to
\* finish, neither one the request submitted nor one another request submitted.
C18_RequestsDoNotWaitForTasks ==
  \A c \in Requests : req[c].pc # "CustomRecover_Wait"

\* C19: of the registrations that carry one email, in any order and
\* interleaving, at most one creates a user; every other one gets
\* ErrDuplicateEmail from Users.Insert and answers 422 with the error on
\* "email", and neither grants a permission nor issues a token.
C19_DuplicateEmailRefused ==
  /\ [](\A i, j \in DOMAIN users : users[i].Email = users[j].Email => i = j)
  /\ [](\A body \in RegisterBodies :
           LET r == UserInsert(users, nextUserID, NewUser(body))
           IN  IF \E i \in DOMAIN users : users[i].Email = body.Email
               THEN r.err = ErrDuplicateEmail /\ r.users = users
               ELSE r.err = ErrNone /\ DOMAIN r.users = DOMAIN users \cup {nextUserID})
  /\ [](resp.err = ErrDuplicateEmail =>
           /\ resp.route = "registerUser"
           /\ resp.status = 422
           /\ resp.id = 0
           /\ resp.token = 0)
  /\ [][resp'.err = ErrDuplicateEmail =>
          UNCHANGED <<users, nextUserID, permissions, tokens, nextToken, issued, wg>>]_vars

\* a registration has been refused as a duplicate while the registration that
\* created the user of that email is still in flight
C19_Witness ==
  /\ resp.route = "registerUser"
  /\ resp.err = ErrDuplicateEmail
  /\ Cardinality(DOMAIN users) = 1
  /\ \E c \in Requests : req[c].pc \in {"registerUser_AddForUser", "registerUser_New"}

\* plaintext p is a valid authentication token of a user who is not activated
UnactivatedAuth(p) == ValidAuth(p) /\ ~users[issued[p].UserID].Activated

\* C20: a user is inserted with Activated false; a login with the right
\* password succeeds before the activation and issues a token of scope
\* "authentication"; every request that presents such a token on a gated route
\* is answered 403 by the activation gate for as long as the user is not
\* activated.
C20_LoginBeforeActivation ==
  /\ [][\A i \in DOMAIN users' \ DOMAIN users : ~users'[i].Activated]_vars
  /\ [](resp.route = "authenticationToken" =>
           /\ resp.status \in {201, 400, 401, 422}
           /\ resp.status = 401 /\ resp.id # 0 =>
                 \E body \in LoginBodies :
                   ~PasswordMatches(users[resp.id].Hash, body.Password))
  /\ [](\A c \in Requests : req[c].pc = "authenticationToken_New" =>
           req[c].user.ID \in DOMAIN users)
  /\ [](resp.route = "authenticationToken" /\ resp.status = 201 =>
           /\ issued[resp.token].Scope = ScopeAuth
           /\ issued[resp.token].UserID = resp.id
           /\ Stored(resp.token))
  /\ [](\A p \in Plaintexts :
           LET a == AuthenticateHeader(<<"Bearer", p>>, users, tokens, now)
           IN  /\ UnactivatedAuth(p) => a.status = 0 /\ RequireActivatedUser(a.identity) = 403
               /\ ValidAuth(p) /\ ~UnactivatedAuth(p) => RequireActivatedUser(a.identity) = 0)
  /\ [](resp.by = "RequireActivatedUser" /\ ~IsAnonymous(resp.identity) =>
           resp.status = 403 /\ ~resp.looked)

\* a user who registered and logged in, and is not activated, has presented the
\* authentication token on a gated route and has been answered 403
C20_Witness ==
  /\ traffic = "accounts"
  /\ resp.by = "RequireActivatedUser"
  /\ resp.status = 403
  /\ \E p \in Plaintexts : UnactivatedAuth(p) /\ issued[p].UserID = resp.identity.user.ID

\* C27: when the movie is deleted by another request between updateMovieHandler's
\* Movies.Get and its Movies.Update, the update matches no row: the PATCH ends
\* with ErrEditConflict, answered 409 and not 404, and the movie stays deleted.
C27_UpdateAfterDelete ==
  /\ [][\A c \in Requests :
          (MovieUpdateStep(c) /\ req[c].movie.ID \notin DOMAIN movies) =>
             /\ resp'.route = "updateMovie"
             /\ resp'.err = ErrEditConflict
             /\ resp'.status = 409
             /\ movies' = movies
             /\ nextMovieID' = nextMovieID]_vars
  /\ [](\A c \in Requests : req[c].pc = "updateMovie_Update" =>
           req[c].movie.ID \in 1..(nextMovieID - 1))
  /\ [](resp.route = "updateMovie" /\ resp.sent # 0 /\ resp.id \notin DOMAIN movies =>
           resp.status = 409 /\ resp.err = ErrEditConflict)

\* a PATCH that read the movie has been answered 409 after a DELETE of the
\* movie, and the movie is not stored
C27_Witness ==
  /\ resp.route = "updateMovie"
  /\ resp.sent # 0
  /\ resp.status = 409
  /\ resp.id \in 1..(nextMovieID - 1)
  /\ resp.id \notin DOMAIN movies

\* C23: IsAnonymous is true of the AnonymousUser sentinel only: no user returned
\* by Users.GetByToken or Users.GetByEmail is classified anonymous, not even one
\* whose fields are all zero; the only identity Authenticate attaches that is
\* anonymous is the one of a request without Authorization header; the sentinel
\* is never written to the store.
C23_AnonymousIsTheSentinel ==
  /\ [](IsAnonymous(AnonymousUser) /\ ~IsAnonymous(Fetched(ZeroUser)))
  /\ [](\A scope \in Scopes, p \in Plaintexts :
           \A r \in {UserGetByToken(users, tokens, scope, p, now)} :
             r.err = ErrNone => ~IsAnonymous(Fetched(r.user)) /\ r.user = users[r.user.ID])
  /\ [](\A body \in LoginBodies :
           \A r \in {UserGetByEmail(users, body.Email)} :
             r.err = ErrNone => ~IsAnonymous(Fetched(r.user)) /\ r.user = users[r.user.ID])
  /\ [](\A header \in AuthHeaders :
           \A a \in {AuthenticateHeader(header, users, tokens, now)} :
             a.status = 0 =>
               /\ IsAnonymous(a.identity) <=> header = <<>>
               /\ IsAnonymous(a.identity) => a.identity = AnonymousUser
               /\ ~IsAnonymous(a.identity) => a.identity.user \in Range(users))
  /\ [](\A c \in Requests : req[c].route # "none" =>
           ~IsAnonymous(req[c].identity) /\ req[c].identity.user.ID \in DOMAIN users)
  /\ [](IsAnonymous(resp.identity) =>
           resp.identity = AnonymousUser /\ resp.by = "RequireActivatedUser" /\ resp.status = 401)
  /\ [](\A i \in DOMAIN users :
           /\ users[i].ID = i /\ i >= 1
           /\ users[i].Name # ZeroUser.Name
           /\ users[i].Email # ZeroUser.Email
           /\ users[i].Hash # ZeroUser.Hash)
  /\ [][\A i \in DOMAIN users' :
          (i \notin DOMAIN users \/ users'[i] # users[i]) =>
             \E c \in Requests :
               /\ Steps(c)
               /\ \/ req[c].pc = "idle" /\ \E body \in RegisterBodies :
                                             users'[i] = UserInsert(users, nextUserID, NewUser(body)).user
                  \/ UserUpdateStep(c) /\ req[c].user.ID = i /\ users[i].ID = i]_vars

\* a user returned by Users.GetByToken is attached to a request that has passed
\* the activation gate, while another request carries the sentinel
C23_Witness ==
  \E c, d \in Requests :
    /\ req[c].pc = "RequirePermission"
    /\ ~IsAnonymous(req[c].identity)
    /\ req[c].identity.user = users[req[c].identity.user.ID]
    /\ d # c
    /\ resp.by = "RequireActivatedUser"
    /\ resp.identity = AnonymousUser

\* what a client sees of a response: the status, the message of the body and
\* the WWW-Authenticate header
Visible(r) == [status |-> r.status, message |-> r.message, challenge |-> r.challenge]

\* the login bodies that pass Bind and the validation and name no stored user
UnknownEmail(body) ==
  /\ ~body.bad
  /\ ValidateEmail(body.Email) \cup ValidPlainText(body.Password) = {}
  /\ UserGetByEmail(users, body.Email).err = ErrNoRecordFound

\* the login bodies that name a stored user and carry another password than theirs
WrongPassword(body) ==
  /\ ~body.bad
  /\ ValidateEmail(body.Email) \cup ValidPlainText(body.Password) = {}
  /\ UserGetByEmail(users, body.Email).err = ErrNone
  /\ ~PasswordMatches(UserGetByEmail(users, body.Email).user.Hash, body.Password)

\* C26: a login with an email no user has and a login with a stored email and a
\* wrong password get the same response, 401 with the message "invalid
\* authentication credentials" and no challenge header, and neither of them
\* issues a token.
C26_LoginFailuresAlike ==
  /\ [](\A body \in LoginBodies :
           (~body.bad /\ ValidateEmail(body.Email) \cup ValidPlainText(body.Password) = {}) =>
             \A r \in {UserGetByEmail(users, body.Email)} :
               (r.err = ErrNoRecordFound \/ ~PasswordMatches(r.user.Hash, body.Password)) =>
                 \A err \in {authenticationTokenHandler_Err(body, users)} :
                   /\ err = NewHTTPError(401, "invalid authentication credentials")
                   /\ customHTTPErrorHandler(err) =
                        [status |-> 401, message |-> "invalid authentication credentials"])
  /\ [](resp.route = "authenticationToken" /\ (resp.err = ErrNoRecordFound \/ resp.id # 0)
           /\ resp.status # 201 =>
           Visible(resp) = [status |-> 401, message |-> "invalid authentication credentials",
                            challenge |-> FALSE])
  /\ [][resp'.route = "authenticationToken" /\ resp'.status # 201 =>
          /\ tokens' = tokens /\ issued' = issued /\ nextToken' = nextToken
          /\ Cardinality({d \in Requests : req'[d].pc = "authenticationToken_New"})
               <= Cardinality({d \in Requests : req[d].pc = "authenticationToken_New"})]_vars

\* a login with an unregistered email has been answered 401 while a user is
\* stored whose password a login can get wrong
C26_Witness ==
  /\ resp.route = "authenticationToken"
  /\ resp.status = 401
  /\ resp.err = ErrNoRecordFound
  /\ \E body \in LoginBodies : WrongPassword(body)

\* a login with a wrong password has been answered 401
C26_WrongPasswordAnswered ==
  /\ resp.route = "authenticationToken"
  /\ resp.status = 401
  /\ resp.id \in DOMAIN users

\* a well-formed plaintext that is no valid token of the scope at time now: no
\* stored token has its digest, or the token has expired, or it has another scope
Unknown(p) == ~Stored(p)
Expired(p, scope) == Stored(p) /\ issued[p].Scope = scope /\ issued[p].Expiry <= now
WrongScope(p, scope) == Stored(p) /\ issued[p].Scope # scope
Failing(p, scope) == Unknown(p) \/ Expired(p, scope) \/ WrongScope(p, scope)

\* the outcomes of Authenticate and of the activation endpoint for every
\* plaintext in one state, and the response observed
TokenFailuresAlike ==
  /\ \A p \in Plaintexts :
        \A a \in {AuthenticateHeader(<<"Bearer", p>>, users, tokens, now)} :
          IF Failing(p, ScopeAuth)
          THEN a = [status |-> 401, challenge |-> TRUE, identity |-> NoIdentity,
                    message |-> "invalid authentication token"]
          ELSE a.status = 0
  /\ \A p \in Plaintexts :
        \A err \in {activateUserHandler_Err([bad |-> FALSE, Token |-> p], users, tokens, now)} :
          IF Failing(p, ScopeActivation)
          THEN err = NewHTTPError(422, "token: invalid or expired activation token")
          ELSE err = PlainError(ErrNone)
  /\ resp.by = "Authenticate" =>
        Visible(resp) = [status |-> 401, message |-> "invalid authentication token",
                         challenge |-> TRUE]
  /\ (resp.route = "activateUser" /\ resp.token \in Plaintexts
        /\ resp.sent = 0 /\ resp.status # 200) =>
        /\ Failing(resp.token, ScopeActivation)
        /\ Visible(resp) = [status |-> 422, challenge |-> FALSE,
                            message |-> "token: invalid or expired activation token"]

\* C21: a well-formed token that is unknown, expired or of the wrong scope gets
\* one and the same response, whichever of the three it is: from Authenticate,
\* 401 with WWW-Authenticate: Bearer and "invalid authentication token"; from
\* the activation endpoint, 422 with "invalid or expired activation token"
\* under the key "token"; the refusal leaves the store as it was.
C21_TokenFailuresAlike ==
  /\ []TokenFailuresAlike
  /\ [][(resp'.by = "Authenticate" \/ (resp'.route = "activateUser" /\ resp'.status = 422)) =>
          UNCHANGED <<users, tokens, permissions, issued, revoked, activations>>]_vars

\* the activation endpoint has refused a token while, of the plaintexts a client
\* may present there, one is unknown, one has expired and one is a valid token
\* of the other scope
C21_Witness ==
  /\ resp.route = "activateUser"
  /\ resp.status = 422
  /\ resp.token \in Plaintexts
  /\ \E p \in Plaintexts : Unknown(p)
  /\ \E p \in Plaintexts : Expired(p, ScopeActivation)
  /\ \E p \in Plaintexts : WrongScope(p, ScopeActivation) /\ ~Expired(p, ScopeAuth)

\* Authenticate has refused a request while one plaintext is unknown, one has
\* expired and one is a valid token of the other scope
C21_AuthenticateRefuses ==
  /\ resp.by = "Authenticate"
  /\ \E p \in Plaintexts : Unknown(p)
  /\ \E p \in Plaintexts : Expired(p, ScopeAuth)
  /\ \E p \in Plaintexts : WrongScope(p, ScopeAuth) /\ ~Expired(p, ScopeActivation)

\* the grants of request c's identity in the permissions table
StoredGrants(c) == PermissionsGetAllForUser(permissions, req[c].identity.user.ID)

\* the requests at a stage of the chain
AtStage(q, pc) == {d \in Requests : q[d].pc = pc}

\* C22: permission decisions are never cached: a request that has passed the
\* activation gate on a gated route makes one lookup of the grants, and it is
\* allowed or answered 403 by the grants stored when it makes that lookup, so
\* that a change of the grants between two requests decides the second one.
C22_NoPermissionCache ==
  /\ [][\A c \in Requests : LookupStep(c) =>
          IF Include(StoredGrants(c), RoutePermission[req[c].route])
          THEN /\ resp' = NoResp
               /\ InFlight(req', [req[c] EXCEPT !.pc = "handler", !.codes = StoredGrants(c)])
                    > InFlight(req, [req[c] EXCEPT !.pc = "handler", !.codes = StoredGrants(c)])
          ELSE /\ resp'.by = "RequirePermission"
               /\ resp'.status = 403
               /\ resp'.codes = StoredGrants(c)
               /\ Cardinality(AtStage(req', "handler")) = Cardinality(AtStage(req, "handler"))]_vars
  /\ [][Cardinality(AtStage(req', "handler")) > Cardinality(AtStage(req, "handler")) =>
          \E c \in Requests : LookupStep(c)]_vars
  /\ [][Cardinality(AtStage(req', "RequirePermission")) > Cardinality(AtStage(req, "RequirePermission")) =>
          /\ Cardinality(AtStage(req', "idle")) < Cardinality(AtStage(req, "idle"))
          /\ permissions' = permissions]_vars
  /\ [](resp.by = "RequirePermission" => resp.looked /\ resp.status = 403
           /\ ~Include(resp.codes, RoutePermission[resp.route])
           /\ resp.codes = PermissionsGetAllForUser(permissions, resp.identity.user.ID))

\* a request of a user is in the handler of a route, let through on the grant
\* the user had, and after the grant was taken away a second request of the
\* same user to the same route has been answered 403
C22_Witness ==
  \E c \in Requests :
    /\ req[c].pc = "handler"
    /\ resp.by = "RequirePermission"
    /\ resp.status = 403
    /\ resp.route = req[c].route
    /\ resp.identity = req[c].identity
    /\ RoutePermission[resp.route] \in req[c].codes \ resp.codes

\* a request has been let through on a grant that was added while the server ran
C22_GrantAddedIsSeen ==
  \E c \in Requests :
    /\ req[c].pc = "handler"
    /\ RoutePermission[req[c].route] \in req[c].codes
    /\ <<req[c].identity.user.ID, RoutePermission[req[c].route]>> \notin Activated.permissions

\* the body customHTTPErrorHandler writes for an error that is no *echo.HTTPError
InternalFault ==
  [status |-> 500,
   message |-> "the server encountered a problem and could not process your request"]

\* C24: a store call that passes its deadline returns an error that is neither
\* ErrNoRecordFound nor ErrEditConflict, whichever call it is, and the request
\* is answered with the generic internal fault, status 500, never 404, 409,
\* 401 or 422; the call has changed nothing in the store.
C24_DeadlineIsInternalFault ==
  /\ [](\A call \in StoreCalls :
           /\ ModelErr(call, ErrDeadline) \notin {ErrNone, ErrNoRecordFound, ErrEditConflict,
                                                  ErrDuplicateEmail}
           /\ customHTTPErrorHandler(HandlerErr(call, ModelErr(call, ErrDeadline))) = InternalFault)
  /\ [](resp.err = ErrDeadline =>
           /\ resp.status = 500
           /\ resp.status \notin {401, 404, 409, 422}
           /\ resp.message = InternalFault.message
           /\ resp.call \in StoreCalls
           /\ ~resp.challenge)
  /\ [][resp'.err = ErrDeadline =>
          /\ UNCHANGED <<catalogVars, accountVars>>
          /\ Cardinality(AtStage(req', "idle")) + Cardinality(AtStage(req', "CustomRecover_Wait"))
               >= Cardinality(AtStage(req, "idle")) + Cardinality(AtStage(req, "CustomRecover_Wait"))]_vars

\* the Users.Update of an activation has passed its deadline and the request
\* has been answered 500
C24_Witness ==
  /\ resp.call = "activateUser_Update"
  /\ resp.err = ErrDeadline
  /\ resp.status = 500
  /\ resp.id \in DOMAIN users

\* the Movies.Update of a PATCH has passed its deadline and the request has
\* been answered 500, the movie being stored
C24_MovieUpdateDeadline ==
  /\ resp.call = "updateMovie_Update"
  /\ resp.err = ErrDeadline
  /\ resp.status = 500
  /\ DOMAIN movies # {}

\* C25: a panic raised while a request is handled is answered with the generic
\* internal fault, status 500 and the generic message.
C25_PanicIsInternalFault ==
  resp.by = "CustomRecover" =>
    resp.status = InternalFault.status /\ resp.message = InternalFault.message

\* the process goes on after a handler's panic: it is recovered inside the request
C25_PanicIsRecovered ==
  [][resp'.by = "CustomRecover" => process' = process /\ process = "running"]_vars

\* a registration is between Users.Insert and its response
RegistrationInFlight ==
  \E c \in Requests : req[c].pc \in {"registerUser_AddForUser", "registerUser_New"}

\* C28: when no registration is in flight, every stored user has the default
\* grant and had an activation token issued: Users.Insert, Permissions.AddForUser
\* and Tokens.New of a registration take effect together or not at all.
C28_RegistrationIsAtomic ==
  ~RegistrationInFlight =>
    \A i \in DOMAIN users :
      /\ <<i, "movies:read">> \in permissions
      /\ \E p \in Plaintexts : issued[p].UserID = i /\ issued[p].Scope = ScopeActivation

====
